---------------------------- MODULE Spec2Model ----------------------------
(***************************************************************************)
(* A model of vinylla: the Fibonacci LFSR, the Bitstream position lookup,  *)
(* the per-channel zero-crossing detector, the Timecode decoder, the        *)
(* timecode audio generator and the Visualizer.                            *)
(*                                                                         *)
(* Integers are TLC's 32-bit integers.  Every u32 of the program that the  *)
(* model handles is below 2^31 (register widths up to 20 bits), and every  *)
(* i32 is computed so that no intermediate value leaves the i32 range.     *)
(***************************************************************************)
EXTENDS Integers, Sequences, FiniteSets, TLC

VARIABLES
    lfsr,       \* a FibonacciLfsr {size, state, taps} driven by the LFSR tests
    period,     \* find_lfsr_period: the number of advance() calls so far
    path,       \* the states the LFSR went through, the seed first
    pc,         \* position of the driving test
    format,     \* the TimecodeFormat {size, seed, taps} given to the constructors
    bitstream,  \* a Bitstream {lookup_table, size, bitstream, valid_bits}
    call,       \* the last Bitstream call, with the state it was made in;
                \* in test_format, the locals of the test
    history,    \* the Bitstream calls so far, while they follow a test's script;
                \* for a Timecode, the sample pairs fed so far
    timecode,   \* a Timecode, its Bitstream included
    returned,   \* what the last process_channels call returned
    generator,  \* a TimecodeAudioGenerator
    visualizer, \* a Visualizer
    buffer      \* the pixels draw_sample is given: index :> value where lit

vars == <<lfsr, period, path, pc, format, bitstream, call, history,
          timecode, returned, generator, visualizer, buffer>>

(***************************************************************************)
(* Option<T>                                                               *)
(***************************************************************************)
None == <<>>

Some(x) == <<x>>

Unwrap(o) == o[1]

\* the value of a variable that a test does not use
Unused == <<>>

Last(s) == s[Len(s)]

Front(s) == SubSeq(s, 1, Len(s) - 1)

(***************************************************************************)
(* Bit operations on u32 (bits.rs and the operators of the language)       *)
(***************************************************************************)
\* Bitwise operations go four bits at a time, through tables of the sixteen
\* hexadecimal digits that are computed bit by bit.
RECURSIVE AndOfBits(_, _)
AndOfBits(a, b) ==
    IF a = 0 \/ b = 0 THEN 0
    ELSE (a % 2) * (b % 2) + 2 * AndOfBits(a \div 2, b \div 2)

RECURSIVE OrOfBits(_, _)
OrOfBits(a, b) ==
    IF a = 0 THEN b
    ELSE IF b = 0 THEN a
    ELSE (IF a % 2 = 1 \/ b % 2 = 1 THEN 1 ELSE 0) + 2 * OrOfBits(a \div 2, b \div 2)

RECURSIVE OnesOfBits(_)
OnesOfBits(a) == IF a = 0 THEN 0 ELSE (a % 2) + OnesOfBits(a \div 2)

DigitAnd == [x \in 0..15 |-> [y \in 0..15 |-> AndOfBits(x, y)]]

DigitOr == [x \in 0..15 |-> [y \in 0..15 |-> OrOfBits(x, y)]]

DigitOnes == [x \in 0..15 |-> OnesOfBits(x)]

RECURSIVE BitAnd(_, _)
BitAnd(a, b) ==
    IF a = 0 \/ b = 0 THEN 0
    ELSE DigitAnd[a % 16][b % 16] + 16 * BitAnd(a \div 16, b \div 16)

RECURSIVE BitOr(_, _)
BitOr(a, b) ==
    IF a = 0 THEN b
    ELSE IF b = 0 THEN a
    ELSE DigitOr[a % 16][b % 16] + 16 * BitOr(a \div 16, b \div 16)

RECURSIVE count_ones(_)
count_ones(a) == IF a = 0 THEN 0 ELSE DigitOnes[a % 16] + count_ones(a \div 16)

\* data << n on a u32 below 2^31 with n + (bits of data) at most 31
Shl(data, n) == data * (2 ^ n)

\* data >> n
Shr(data, n) == data \div (2 ^ n)

mask(size) == Shl(1, size) - 1

insert_msb(size, data, bit) ==
    LET b == BitAnd(bit, 1)
    IN  BitOr(Shl(b, size - 1), Shr(data, 1))

\* insert_lsb that keeps the bit shifted out at the top
InsertLsbUnmasked(size, data, bit) ==
    LET b == BitAnd(bit, 1)
    IN  BitOr(Shl(data, 1), b)

insert_lsb(size, data, bit) ==
    LET b == BitAnd(bit, 1)
    IN  BitOr(BitAnd(Shl(data, 1), mask(size)), b)

\* rotate_left that takes bit size - 2 for the old MSB
RotateLeftOfLowerBit(size, data) ==
    LET msb == Shr(data, IF size >= 2 THEN size - 2 ELSE 0)
    IN  insert_lsb(size, data, msb)

rotate_left(size, data) ==
    LET msb == Shr(data, size - 1)
    IN  insert_lsb(size, data, msb)

rotate_right(size, data) ==
    LET lsb == BitAnd(data, 1)
    IN  insert_msb(size, data, lsb)

(***************************************************************************)
(* FibonacciLfsr (lfsr.rs)                                                 *)
(***************************************************************************)
FibonacciLfsr(size, state, taps) == [size |-> size, state |-> state, taps |-> taps]

\* next_state with the feedback taken from every bit of the state
NextStateIgnoringTaps(l) ==
    LET next_bit == BitAnd(count_ones(l.state), 1)
    IN  insert_msb(l.size, l.state, next_bit)

next_state(l) ==
    LET next_bit == BitAnd(count_ones(BitAnd(l.state, l.taps)), 1)
    IN  insert_msb(l.size, l.state, next_bit)

\* previous_state with the taps left unrotated
PreviousStateUnrotatedTaps(l) ==
    LET previous_bit == BitAnd(count_ones(BitAnd(l.state, l.taps)), 1)
    IN  insert_lsb(l.size, l.state, previous_bit)

previous_state(l) ==
    LET taps == rotate_right(l.size, l.taps)
        previous_bit == BitAnd(count_ones(BitAnd(l.state, taps)), 1)
    IN  insert_lsb(l.size, l.state, previous_bit)

advance(l) == [l EXCEPT !.state = next_state(l)]

revert(l) == [l EXCEPT !.state = previous_state(l)]

(***************************************************************************)
(* Bitstream (bitstream.rs)                                                *)
(***************************************************************************)
TimecodeFormat(size, seed, taps) ==
    [size |-> size, seed |-> seed, taps |-> taps, signal_frequency_hz |-> 1000]

\* the n states an LFSR goes through from state `start` on, `start` first
\* (the states lfsr.state takes in the loop of Bitstream::new)
RECURSIVE Orbit(_, _, _, _)
\* `head` followed by the n states after its last one
OrbitAfter(head, size, taps, n) ==
    head \o Orbit(size, next_state(FibonacciLfsr(size, Last(head), taps)), taps, n)

Orbit(size, start, taps, n) ==
    IF n <= 0 THEN <<>>
    ELSE IF n = 1 THEN <<start>>
    ELSE OrbitAfter(Orbit(size, start, taps, n \div 2), size, taps, n - n \div 2)

Max(S) == CHOOSE x \in S : \A y \in S : y <= x

\* the loop of Bitstream::new: lookup_table.insert(lfsr.state, i) for i from
\* `first` on, one insert per state of `states`; a later insert of a key
\* replaces the earlier one (HashMap::insert)
PopulateLookupTable(states, first) ==
    [ key \in { states[k] : k \in 1..Len(states) } |->
          Max({ k \in 1..Len(states) : states[k] = key }) - 1 + first ]

\* Bitstream::new with the table's positions counted from 1
BitstreamNewCountingFromOne(size, seed, taps) ==
    LET capacity == 2 ^ size - 1
    IN  [ lookup_table |->
              PopulateLookupTable(Orbit(size, seed, taps, capacity), 1),
          size |-> size,
          bitstream |-> seed,
          valid_bits |-> size ]

Bitstream_new(size, seed, taps) ==
    LET capacity == 2 ^ size - 1
    IN  [ lookup_table |->
              PopulateLookupTable(Orbit(size, seed, taps, capacity), 0),
          size |-> size,
          bitstream |-> seed,
          valid_bits |-> size ]

is_valid(b) == b.valid_bits >= b.size

\* position() that looks the window up without asking is_valid()
PositionIgnoringValidity(b) ==
    IF b.bitstream \in DOMAIN b.lookup_table
    THEN Some(b.lookup_table[b.bitstream])
    ELSE None

position(b) ==
    IF ~is_valid(b) THEN None
    ELSE IF b.bitstream \in DOMAIN b.lookup_table
         THEN Some(b.lookup_table[b.bitstream])
         ELSE None

\* process_bit that discards the processed bits when the positions ARE consecutive
ProcessBitResettingOnConsecutive(b, bit) ==
    LET prev_position == position(b)
        shifted == [b EXCEPT !.bitstream = insert_msb(b.size, b.bitstream, bit)]
        next_position == position(shifted)
        discard == /\ prev_position # None
                   /\ next_position # None
                   /\ Unwrap(prev_position) + 1 = Unwrap(next_position)
    IN  [shifted EXCEPT !.valid_bits = (IF discard THEN 0 ELSE @) + 1]

\* process_bit that never discards the processed bits
ProcessBitNeverDiscarding(b, bit) ==
    [b EXCEPT !.bitstream = insert_msb(b.size, b.bitstream, bit),
              !.valid_bits = @ + 1]

process_bit(b, bit) ==
    LET prev_position == position(b)
        shifted == [b EXCEPT !.bitstream = insert_msb(b.size, b.bitstream, bit)]
        next_position == position(shifted)
        discard == /\ prev_position # None
                   /\ next_position # None
                   /\ Unwrap(prev_position) + 1 # Unwrap(next_position)
    IN  [shifted EXCEPT !.valid_bits = (IF discard THEN 0 ELSE @) + 1]

\* process_bit_backward with the comparison of process_bit
ProcessBitBackwardComparingForward(b, bit) ==
    LET prev_position == position(b)
        shifted == [b EXCEPT !.bitstream = insert_lsb(b.size, b.bitstream, bit)]
        next_position == position(shifted)
        discard == /\ prev_position # None
                   /\ next_position # None
                   /\ Unwrap(prev_position) + 1 # Unwrap(next_position)
    IN  [shifted EXCEPT !.valid_bits = (IF discard THEN 0 ELSE @) + 1]

process_bit_backward(b, bit) ==
    LET prev_position == position(b)
        shifted == [b EXCEPT !.bitstream = insert_lsb(b.size, b.bitstream, bit)]
        next_position == position(shifted)
        discard == /\ prev_position # None
                   /\ next_position # None
                   /\ Unwrap(prev_position) # Unwrap(next_position) + 1
    IN  [shifted EXCEPT !.valid_bits = (IF discard THEN 0 ELSE @) + 1]

(***************************************************************************)
(* The LFSR tests: test_maximal_length_lfsrs with find_lfsr_period, and    *)
(* test_lfsr_advance_and_revert.  A configuration is <<size, seed, taps>>. *)
(***************************************************************************)
MaximalLengthConfigurations ==
    { <<2, 1, 3>>, <<3, 1, 3>>, <<4, 1, 3>>, <<5, 1, 5>>, <<6, 1, 3>>,
      <<7, 1, 3>>, <<8, 1, 29>>, <<9, 1, 17>>, <<10, 1, 9>>, <<11, 1, 5>>,
      <<12, 1, 263>> }

AdvanceAndRevertConfiguration == <<5, 21, 5>>

\* the states test_lfsr_advance_and_revert expects, the initial one first
AdvanceAndRevertExpected ==
    <<21, 10, 5, 2, 1, 16, 8, 4, 18, 9, 20, 26, 13, 6, 19, 25, 28, 30, 31, 15, 7,
      3, 17, 24, 12, 22, 27, 29, 14, 23, 11, 21>>

LfsrConfigurations == MaximalLengthConfigurations \cup {AdvanceAndRevertConfiguration}

LfsrInit ==
    /\ \E c \in LfsrConfigurations :
          /\ lfsr = FibonacciLfsr(c[1], c[2], c[3])
          /\ path = <<c[2]>>
          /\ visualizer = Unused
          /\ buffer = Unused
    /\ period = 0
    /\ pc = "advance"
    /\ format = Unused
    /\ bitstream = Unused
    /\ call = Unused
    /\ history = Unused
    /\ timecode = Unused
    /\ returned = Unused
    /\ generator = Unused

\* One turn of find_lfsr_period's loop; the loop ends when the state is the
\* seed again.  The guard on period keeps a register that never returns finite.
LfsrAdvance ==
    /\ pc = "advance"
    /\ period < Shl(1, lfsr.size)
    /\ lfsr' = advance(lfsr)
    /\ period' = period + 1
    /\ path' = Append(path, lfsr'.state)
    /\ pc' = IF lfsr'.state = path[1] THEN "returned" ELSE "advance"
    /\ UNCHANGED <<format, visualizer, buffer, bitstream, call, history, timecode,
                   returned, generator>>

\* test_lfsr_advance_and_revert: once the register is back at its seed, every
\* revert() is compared with the state before the corresponding advance().
LfsrRevert ==
    /\ pc \in {"returned", "revert"}
    /\ Len(path) > 2
    /\ lfsr' = revert(lfsr)
    /\ path' = Front(path)
    /\ pc' = "revert"
    /\ UNCHANGED <<period, format, visualizer, buffer, bitstream, call, history,
                   timecode, returned, generator>>

LfsrNext == LfsrAdvance \/ LfsrRevert

SpecLfsr == LfsrInit /\ [][LfsrNext]_vars

LfsrSeed == path[1]

IsConfiguration(c) == lfsr.size = c[1] /\ LfsrSeed = c[2] /\ lfsr.taps = c[3]

\* the states visited by the advance() calls made so far, the seed included
Visited == { path[i] : i \in 1..Len(path) }

\* C5: for each of the eleven (size, taps) pairs of widths 2..12 and seed 1,
\* the state first equals the seed again after exactly 2^size - 1 advance()
\* calls, which visited 2^size - 1 distinct nonzero states.
C5_PeriodIsMaximal ==
    (pc = "returned" /\ \E c \in MaximalLengthConfigurations : IsConfiguration(c))
        => /\ period = Shl(1, lfsr.size) - 1
           /\ Cardinality(Visited) = Shl(1, lfsr.size) - 1
           /\ 0 \notin Visited

C5_Witness ==
    /\ pc = "returned"
    /\ IsConfiguration(<<8, 1, 29>>)
    /\ period = 255
    /\ Cardinality(Visited) = 255

\* C6: the LFSR {size 5, state 0b10101, taps 0b00101} goes 0b01010, 0b00101,
\* 0b00010, ... through 31 distinct states and is back at 0b10101 after 31
\* advances; each revert() then returns the state that preceded the
\* corresponding advance(), down to 0b01010 after 30 reverts.
C6_AdvanceAndRevert ==
    IsConfiguration(AdvanceAndRevertConfiguration)
        => /\ pc \in {"advance", "returned"}
                => path = SubSeq(AdvanceAndRevertExpected, 1, period + 1)
           /\ pc = "returned"
                => /\ period = 31
                   /\ lfsr.state = 21
                   /\ Cardinality(Visited) = 31
           /\ pc = "advance" /\ period > 0 => lfsr.state # 21
           /\ pc = "revert"
                => /\ lfsr.state = Last(path)
                   /\ Len(path) = 2 => lfsr.state = 10

C6_Witness ==
    /\ IsConfiguration(AdvanceAndRevertConfiguration)
    /\ pc = "revert"
    /\ period = 31
    /\ Len(path) = 2
    /\ lfsr.state = 10

(***************************************************************************)
(* The register of the canonical format (format.rs), advanced as the loop  *)
(* of Bitstream::new advances it.  Its 2^20 - 1 states are gone through    *)
(* ChunkSize advances at a time, looking in each chunk for the seed.       *)
(***************************************************************************)
SERATO_CONTROL_CD_1_0_0 == TimecodeFormat(20, 595115, 216405)

\* the advance() calls made in one step
ChunkSize == 4096

Min(S) == CHOOSE x \in S : \A y \in S : x <= y

CanonicalInit ==
    /\ format = SERATO_CONTROL_CD_1_0_0
    /\ lfsr = FibonacciLfsr(format.size, format.seed, format.taps)
    /\ path = <<format.seed>>
    /\ visualizer = Unused
    /\ buffer = Unused
    /\ period = 0
    /\ pc = "advance"
    /\ bitstream = Unused
    /\ call = Unused
    /\ history = Unused
    /\ timecode = Unused
    /\ returned = Unused
    /\ generator = Unused

\* the register after the first of `returns` advances, or after all of `states`
AdvancedBy(states, returns) ==
    /\ lfsr' = [lfsr EXCEPT !.state = states[IF returns = {} THEN Len(states) ELSE Min(returns)]]
    /\ period' = period + (IF returns = {} THEN Len(states) ELSE Min(returns))
    /\ pc' = IF returns = {} THEN "advance" ELSE "returned"

\* `states` are the states of the next advances: stop at the seed
AdvancedThrough(states) ==
    AdvancedBy(states, { k \in 1..Len(states) : states[k] = path[1] })

\* up to ChunkSize turns of the loop `lfsr.advance()`, ending early at the
\* turn that brings the state back to the seed
CanonicalAdvance ==
    /\ pc = "advance"
    /\ period < Shl(1, lfsr.size)
    /\ AdvancedThrough(Orbit(lfsr.size, next_state(lfsr), lfsr.taps, ChunkSize))
    /\ UNCHANGED <<path, format, visualizer, buffer, bitstream, call, history,
                   timecode, returned, generator>>

SpecCanonical == CanonicalInit /\ [][CanonicalAdvance]_vars

\* C8: the canonical format (size 20, seed 0x914AB, taps 0x34D55) is maximum
\* length: from the seed, advance() reaches the seed again for the first time
\* after exactly 2^20 - 1 = 1,048,575 calls, so the 1,048,575 states that
\* Bitstream::new inserts are distinct windows.
C8_CanonicalPeriod ==
    /\ format = TimecodeFormat(20, 595115, 216405)
    /\ pc = "returned" => period = 1048575 /\ lfsr.state = format.seed
    /\ pc = "advance" => period < 1048575 /\ (period > 0 => lfsr.state # format.seed)
    /\ lfsr.state \in 1..mask(20)

C8_Witness ==
    /\ pc = "returned"
    /\ period = 2 ^ 20 - 1
    /\ lfsr.state = 595115

(***************************************************************************)
(* The Bitstream under arbitrary pushes.  test_lookup_table's calls are    *)
(* kept as a script: <<call, bit, position() after it, valid_bits after>>. *)
(***************************************************************************)
TestLookupTableFormat == TimecodeFormat(8, 1, 29)

TestLookupTableScript ==
    << <<"process_bit", 1, Some(1), 9>>,
       <<"process_bit", 0, Some(2), 10>>,
       <<"process_bit", 0, Some(3), 11>>,
       <<"process_bit", 0, Some(4), 12>>,
       <<"process_bit", 0, None, 1>>,
       <<"process_bit", 0, None, 2>>,
       <<"process_bit", 1, None, 3>>,
       <<"process_bit", 1, None, 4>>,
       <<"process_bit", 0, None, 5>>,
       <<"process_bit", 0, None, 6>>,
       <<"process_bit", 1, None, 7>>,
       <<"process_bit", 1, Some(182), 8>>,
       <<"process_bit", 0, Some(183), 9>>,
       <<"process_bit", 1, Some(184), 10>>,
       <<"process_bit", 0, Some(185), 11>>,
       <<"process_bit_backward", 1, Some(184), 12>>,
       <<"process_bit_backward", 0, Some(183), 13>>,
       <<"process_bit", 1, Some(184), 14>> >>

\* test_exactly_1_bit_produces_consecutive_positions
ConsecutivePositionsFormat == TimecodeFormat(8, 240, 29)

BitstreamFormats == {TestLookupTableFormat, ConsecutivePositionsFormat}

\* the calls made so far left the script
OffScript == << <<"off", 0>> >>

\* the sequence of scenario 3: the calls of test_lookup_table after position 182,
\* with one more process_bit(0) in front
Scenario3Script ==
    << <<"process_bit", 0>>, <<"process_bit", 0>>, <<"process_bit", 1>>,
       <<"process_bit", 0>>, <<"process_bit_backward", 1>>,
       <<"process_bit_backward", 0>>, <<"process_bit", 1>> >>

TestScripts == {TestLookupTableScript, Scenario3Script}

\* the calls h are the first calls of the script
OnScript(h, script) ==
    /\ h # OffScript
    /\ Len(h) <= Len(script)
    /\ \A i \in 1..Len(h) : h[i] = <<script[i][1], script[i][2]>>

Follow(h, name, bit) ==
    IF \E script \in TestScripts : OnScript(Append(h, <<name, bit>>), script)
    THEN Append(h, <<name, bit>>)
    ELSE OffScript

\* the largest valid_bits the pushes are followed to
MaxValidBits == 14

\* the widest register whose table is built for every seed
MaxTableSize == 7

Constructed(f) ==
    /\ format = f
    /\ bitstream = Bitstream_new(f.size, f.seed, f.taps)
    /\ call = [name |-> "new", bit |-> 0, bitstream |-> f.seed, valid_bits |-> 0]
    /\ history = IF f = TestLookupTableFormat THEN <<>> ELSE OffScript
    /\ pc = "bitstream"
    /\ lfsr = Unused
    /\ period = 0
    /\ path = Unused
    /\ visualizer = Unused
    /\ buffer = Unused
    /\ timecode = Unused
    /\ returned = Unused
    /\ generator = Unused

BitstreamInit == \E f \in BitstreamFormats : Constructed(f)

BitstreamNewInit ==
    \E c \in MaximalLengthConfigurations :
        /\ c[1] <= MaxTableSize
        /\ \E seed \in 1..mask(c[1]) : Constructed(TimecodeFormat(c[1], seed, c[3]))

Called(name, bit) ==
    [name |-> name, bit |-> bit,
     bitstream |-> bitstream.bitstream, valid_bits |-> bitstream.valid_bits]

ProcessBit(bit, cap) ==
    /\ pc = "bitstream"
    /\ bitstream.valid_bits < cap
    /\ bitstream' = process_bit(bitstream, bit)
    /\ call' = Called("process_bit", bit)
    /\ history' = Follow(history, "process_bit", bit)
    /\ UNCHANGED <<lfsr, period, path, pc, format, visualizer, buffer, timecode,
                   returned, generator>>

ProcessBitBackward(bit, cap) ==
    /\ pc = "bitstream"
    /\ bitstream.valid_bits < cap
    /\ bitstream' = process_bit_backward(bitstream, bit)
    /\ call' = Called("process_bit_backward", bit)
    /\ history' = Follow(history, "process_bit_backward", bit)
    /\ UNCHANGED <<lfsr, period, path, pc, format, visualizer, buffer, timecode,
                   returned, generator>>

BitstreamNext ==
    \E bit \in {0, 1} :
        \/ ProcessBit(bit, MaxValidBits)
        \/ ProcessBitBackward(bit, MaxValidBits)

SpecBitstream == BitstreamInit /\ [][BitstreamNext]_vars

\* one push on each freshly constructed Bitstream
BitstreamNewNext ==
    /\ call.name = "new"
    /\ \E bit \in {0, 1} :
          \/ ProcessBit(bit, MaxValidBits)
          \/ ProcessBitBackward(bit, MaxValidBits)

SpecBitstreamNew == BitstreamNewInit /\ [][BitstreamNewNext]_vars

\* the Bitstream as it was when the last call was made
Before == [bitstream EXCEPT !.bitstream = call.bitstream, !.valid_bits = call.valid_bits]

\* the register the lookup table was populated from, at window w
RegisterAt(w) == FibonacciLfsr(format.size, w, format.taps)

\* the bit that continues the sequence after window w
FeedbackBit(w) == BitAnd(count_ones(BitAnd(w, format.taps)), 1)

LastPosition == 2 ^ format.size - 2

\* C2: at a defined position p < 2^size - 2 with window w, process_bit(b) with
\* b the feedback bit of w leaves the window at the LFSR's next state after w,
\* makes position() Some(p + 1) and increases valid_bits by exactly 1.
C2_ForwardTracking ==
    ( /\ call.name = "process_bit"
      /\ position(Before) # None
      /\ Unwrap(position(Before)) < LastPosition
      /\ call.bit = FeedbackBit(call.bitstream) )
        => /\ bitstream.bitstream = next_state(RegisterAt(call.bitstream))
           /\ position(bitstream) = Some(Unwrap(position(Before)) + 1)
           /\ bitstream.valid_bits = call.valid_bits + 1

C2_Witness ==
    /\ call.name = "process_bit"
    /\ position(Before) = Some(100)
    /\ call.bit = FeedbackBit(call.bitstream)
    /\ position(bitstream) = Some(101)
    /\ call.valid_bits = 11
    /\ bitstream.valid_bits = 12

\* C3: with Bitstream::new(8, 0b00000001, 0b00011101), position() is Some(0),
\* then Some(1), Some(2), Some(3), Some(4) after process_bit(1), (0), (0), (0);
\* the errant process_bit(0) makes it None with valid_bits 1; it stays None
\* while 0,1,1,0,0,1 are pushed (valid_bits 2..7); the next process_bit(1)
\* gives valid_bits 8, window 0b11001100 and position() Some(182).
C3_LookupTableScenario ==
    (OnScript(history, TestLookupTableScript) /\ Len(history) <= 12)
        => /\ Len(history) = 0
                => position(bitstream) = Some(0) /\ bitstream.valid_bits = 8
           /\ Len(history) > 0
                => /\ position(bitstream) = TestLookupTableScript[Len(history)][3]
                   /\ bitstream.valid_bits = TestLookupTableScript[Len(history)][4]
           /\ Len(history) = 12 => bitstream.bitstream = 204

C3_Witness ==
    /\ OnScript(history, TestLookupTableScript)
    /\ Len(history) = 12
    /\ position(bitstream) = Some(182)
    /\ bitstream.valid_bits = 8
    /\ bitstream.bitstream = 204

\* pushing `bit` now yields a defined position that is the present one + 1
YieldsConsecutive(bit) ==
    LET pushed == process_bit(bitstream, bit)
    IN  /\ position(bitstream) # None
        /\ position(pushed) # None
        /\ Unwrap(position(pushed)) = Unwrap(position(bitstream)) + 1

C7_LookupTable ==
    LET table == bitstream.lookup_table
        windows == DOMAIN table
    IN  /\ Cardinality(windows) = 2 ^ format.size - 1
        /\ format.seed \in windows
        /\ table[format.seed] = 0
        /\ \A w \in windows :
              table[w] < LastPosition
                  => /\ next_state(RegisterAt(w)) \in windows
                     /\ table[next_state(RegisterAt(w))] = table[w] + 1
        /\ { table[w] : w \in windows } = 0..LastPosition
        /\ \A v, w \in windows : table[v] = table[w] => v = w

C7_Witness ==
    /\ call.name = "new"
    /\ format.size = 7
    /\ format.seed = 100
    /\ bitstream.lookup_table[100] = 0
    /\ Cardinality(DOMAIN bitstream.lookup_table) = 127

(***************************************************************************)
(* ExponentialWeightedMovingAverage (util.rs)                              *)
(*                                                                         *)
(* The smoothing factor is an f64.  For the sample rates 44100 and 48000   *)
(* it is the double nearest to 100/541 and to 5/29: alpha = A / 2^55 with  *)
(* num * 2^55 - den * A = shortfall.  The product alpha * d, rounded to a  *)
(* double and truncated, is the truncated num * d / den, except that where *)
(* den divides d and the shortfall is positive the rounded product can     *)
(* fall just below the integer num * d / den and then truncates to one     *)
(* less.                                                                   *)
(***************************************************************************)
\* 1 / TIME_CONSTANT
TIME_CONSTANT_INVERSE == 10000

SampleRates == {44100, 48000}

RECURSIVE Gcd(_, _)
Gcd(a, b) == IF b = 0 THEN a ELSE Gcd(b, a % b)

\* alpha = (1 / rate) / (TIME_CONSTANT + 1 / rate) = 10000 / (10000 + rate)
calculate_smoothing_factor(sample_rate_hz) ==
    [ num |-> TIME_CONSTANT_INVERSE \div Gcd(TIME_CONSTANT_INVERSE, sample_rate_hz),
      den |-> (TIME_CONSTANT_INVERSE + sample_rate_hz)
                  \div Gcd(TIME_CONSTANT_INVERSE, sample_rate_hz),
      shortfall |-> IF sample_rate_hz = 48000 THEN 17 ELSE -156 ]

ExponentialWeightedMovingAverage_new(sample_rate_hz) ==
    [ last_output |-> 0,
      smoothing_factor |-> calculate_smoothing_factor(sample_rate_hz) ]

\* i32::MAX and i32::MIN
MaxI32 == 2147483647

MinI32 == -MaxI32 - 1

\* a - b leaves the i32 range: the subtraction panics where overflow is
\* checked, and wraps where it is not
SubOverflows(a, b) ==
    \/ a >= 0 /\ b < 0 /\ a > MaxI32 + b
    \/ a < 0 /\ b > 0 /\ a < MinI32 + b

\* a - b modulo 2^32, in the i32 range
WrappingSub(a, b) ==
    IF ~SubOverflows(a, b) THEN a - b
    ELSE IF a >= 0 THEN ((a - MaxI32 - 1) - (b + MaxI32)) - 1
    ELSE ((a + MaxI32 + 1) - (b - MaxI32)) + 1

AddOverflows(a, b) ==
    \/ a > 0 /\ b > 0 /\ a > MaxI32 - b
    \/ a < 0 /\ b < 0 /\ a < MinI32 - b

\* a + b modulo 2^32, in the i32 range
WrappingAdd(a, b) ==
    IF ~AddOverflows(a, b) THEN a + b
    ELSE IF a > 0 THEN ((a - MaxI32 - 1) + (b - MaxI32)) - 1
    ELSE ((a + MaxI32 + 1) + (b + MaxI32)) + 1

\* i32::abs overflows for i32::MIN only, and then wraps to i32::MIN
AbsOverflows(x) == x = MinI32

Abs(x) == IF x = MinI32 THEN MinI32 ELSE IF x < 0 THEN -x ELSE x

\* the largest power of two that is at most x, for x >= 1
RECURSIVE PowerOfTwoBelow(_)
PowerOfTwoBelow(x) == IF x < 2 THEN 1 ELSE 2 * PowerOfTwoBelow(x \div 2)

\* whether the double alpha * t, for t = k * den > 0, lies below the integer
\* k * num: the exact product is k * num - k * shortfall / 2^55, and it rounds
\* to k * num unless it is more than half an ulp of k * num away
RoundsBelow(alpha, t) ==
    /\ t > 0
    /\ t % alpha.den = 0
    /\ alpha.shortfall > 0
    /\ (t \div alpha.den) * alpha.shortfall
           > 4 * PowerOfTwoBelow((t \div alpha.den) * alpha.num)

\* (alpha * t as f64) as i32 for t >= 0
ScaledMagnitude(alpha, t) ==
    (t \div alpha.den) * alpha.num + ((t % alpha.den) * alpha.num) \div alpha.den
        - (IF RoundsBelow(alpha, t) THEN 1 ELSE 0)

\* (self.smoothing_factor * d as f64) as i32: the cast truncates toward zero
\* (alpha * 2^31 as f64) as i32: twice alpha * 2^30, which no den divides
ScaledMagnitudeOfMin(alpha) ==
    2 * ScaledMagnitude(alpha, 2 ^ 30)
        + (IF 2 * (((2 ^ 30 % alpha.den) * alpha.num) % alpha.den) >= alpha.den THEN 1 ELSE 0)

Scaled(alpha, d) ==
    IF d >= 0 THEN ScaledMagnitude(alpha, d)
    ELSE IF d = MinI32 THEN -ScaledMagnitudeOfMin(alpha)
    ELSE -ScaledMagnitude(alpha, -d)

\* input - self.last_output, as it wraps where overflow is not checked
difference_to(ewma, input) == WrappingSub(input, ewma.last_output)

\* the sum wraps where overflow is not checked
smoothen(ewma, input) ==
    WrappingAdd(ewma.last_output, Scaled(ewma.smoothing_factor, difference_to(ewma, input)))

\* smoothen(input) or difference_to(input) leaves the i32 range
DifferenceOverflows(ewma, input) == SubOverflows(input, ewma.last_output)

SmoothenOverflows(ewma, input) ==
    \/ DifferenceOverflows(ewma, input)
    \/ AddOverflows(ewma.last_output,
                    Scaled(ewma.smoothing_factor, difference_to(ewma, input)))

\* the filter after process(input); the call returns its last_output
process(ewma, input) == [ewma EXCEPT !.last_output = smoothen(ewma, input)]

(***************************************************************************)
(* TimecodeChannel (timecode.rs)                                           *)
(***************************************************************************)
sample_to_i32(sample) == sample * 65536

TimecodeChannel_new(sample_rate_hz) ==
    [ ewma |-> ExponentialWeightedMovingAverage_new(sample_rate_hz),
      wave_cycle_status |-> "Positive",
      peak_threshold |-> 0,
      crossed_zero |-> FALSE,
      sample |-> 0,
      threshold |-> 0 ]

\* has_crossed_zero that also counts a sample equal to the average
HasReachedZero(ch, sample) ==
    IF ch.wave_cycle_status = "Negative"
    THEN sample >= ch.ewma.last_output
    ELSE sample <= ch.ewma.last_output

has_crossed_zero(ch, sample) ==
    IF ch.wave_cycle_status = "Negative"
    THEN sample > ch.ewma.last_output
    ELSE sample < ch.ewma.last_output

Toggled(status) == IF status = "Negative" THEN "Positive" ELSE "Negative"

\* the channel after process_sample(sample); the call returns its crossed_zero
process_sample(ch, sample) ==
    [ch EXCEPT !.crossed_zero = has_crossed_zero(ch, sample),
               !.wave_cycle_status =
                   IF has_crossed_zero(ch, sample) THEN Toggled(@) ELSE @,
               !.ewma = process(@, sample)]

\* 0.9 * peak as f64, truncated: peak is never negative
NineTenths(peak) == (peak \div 10) * 9 + ((peak % 10) * 9) \div 10

IntMax(a, b) == IF a >= b THEN a ELSE b

\* bit_from_sample with the peak taken over the differences to the average
BitFromSamplePeakOfDifference(ch, sample) ==
    [ch EXCEPT !.sample = Abs(difference_to(ch.ewma, sample)),
               !.peak_threshold = IntMax(Abs(difference_to(ch.ewma, sample)), @),
               !.threshold =
                   NineTenths(IntMax(Abs(difference_to(ch.ewma, sample)), ch.peak_threshold))]

\* bit_from_sample with the peak set to the sample read
BitFromSampleWithoutRatchet(ch, sample) ==
    [ch EXCEPT !.sample = Abs(difference_to(ch.ewma, sample)),
               !.peak_threshold = sample,
               !.threshold = NineTenths(IntMax(sample, 0))]

\* the channel after bit_from_sample(sample); the call returns BitRead of it.
\* The peak is the maximum of the samples given, not of self.sample.
bit_from_sample(ch, sample) ==
    [ch EXCEPT !.sample = Abs(difference_to(ch.ewma, sample)),
               !.peak_threshold = IntMax(sample, @),
               !.threshold = NineTenths(IntMax(sample, ch.peak_threshold))]

BitRead(ch) == ch.sample > ch.threshold

(***************************************************************************)
(* PitchDetector (pitch.rs).  samples_since_last_quarter_cycle is an f64:  *)
(* it is kept as whole + b / (b + a), and as not a number when a = b = 0.  *)
(***************************************************************************)
PitchDetector_new(sample_rate_hz, timecode_frequency_hz) ==
    [ samples_per_quarter_cycle |-> <<sample_rate_hz, timecode_frequency_hz * 4>>,
      samples_since_last_quarter_cycle |-> [whole |-> 1, b |-> 0, a |-> 1],
      last_primary_sample |-> 0,
      last_secondary_sample |-> 0 ]

update(pitch, primary_sample, secondary_sample) ==
    [pitch EXCEPT !.last_primary_sample = primary_sample,
                  !.last_secondary_sample = secondary_sample,
                  !.samples_since_last_quarter_cycle.whole = @ + 1]

update_after_zero_crossing(pitch, primary_sample, secondary_sample, primary_crossed_zero) ==
    [pitch EXCEPT !.samples_since_last_quarter_cycle =
        IF primary_crossed_zero
        THEN [whole |-> 0, b |-> Abs(primary_sample), a |-> Abs(pitch.last_primary_sample)]
        ELSE [whole |-> 0, b |-> Abs(secondary_sample), a |-> Abs(pitch.last_secondary_sample)]]

(***************************************************************************)
(* Timecode (timecode.rs)                                                  *)
(***************************************************************************)
\* Bitstream::state and Bitstream::set_state expose the rolling window
Bitstream_state(b) == b.bitstream

Bitstream_set_state(b, state) == [b EXCEPT !.bitstream = state]

\* the fields of a fresh Timecode around the given bitstream
TimecodeAround(b, sample_rate_hz, signal_frequency_hz) ==
    [ bitstream |-> b,
      primary_channel |-> TimecodeChannel_new(sample_rate_hz),
      secondary_channel |-> TimecodeChannel_new(sample_rate_hz),
      direction |-> "Forwards",
      pitch |-> PitchDetector_new(sample_rate_hz, signal_frequency_hz),
      primary_crossed_zero |-> FALSE,
      secondary_crossed_zero |-> FALSE,
      primary_sample |-> 0,
      secondary_sample |-> 0,
      bit |-> FALSE ]

Timecode_new(f, sample_rate_hz) ==
    TimecodeAround(Bitstream_new(f.size, f.seed, f.taps), sample_rate_hz,
                   f.signal_frequency_hz)

Timecode_state(tc) == Bitstream_state(tc.bitstream)

Timecode_set_state(tc, state) ==
    [tc EXCEPT !.bitstream = Bitstream_set_state(@, state)]

\* process_channels up to the zero crossings of the two channels
ChannelsProcessed(tc, primary_sample, secondary_sample) ==
    [tc EXCEPT
        !.primary_sample = sample_to_i32(primary_sample),
        !.secondary_sample = sample_to_i32(secondary_sample),
        !.primary_channel = process_sample(@, sample_to_i32(primary_sample)),
        !.secondary_channel = process_sample(@, sample_to_i32(secondary_sample)),
        !.primary_crossed_zero =
            has_crossed_zero(tc.primary_channel, sample_to_i32(primary_sample)),
        !.secondary_crossed_zero =
            has_crossed_zero(tc.secondary_channel, sample_to_i32(secondary_sample))]

\* the direction falling back to Forwards on a sample without a crossing
DirectionForwardsWithoutCrossing(tc) ==
    [tc EXCEPT
        !.direction =
            IF tc.primary_crossed_zero
            THEN (IF tc.primary_channel.wave_cycle_status
                        = tc.secondary_channel.wave_cycle_status
                  THEN "Forwards" ELSE "Backwards")
            ELSE IF tc.secondary_crossed_zero
            THEN (IF tc.primary_channel.wave_cycle_status
                        # tc.secondary_channel.wave_cycle_status
                  THEN "Forwards" ELSE "Backwards")
            ELSE "Forwards",
        !.pitch =
            IF tc.primary_crossed_zero \/ tc.secondary_crossed_zero
            THEN update_after_zero_crossing(@, tc.primary_sample, tc.secondary_sample,
                                            tc.primary_crossed_zero)
            ELSE update(@, tc.primary_sample, tc.secondary_sample)]

\* the direction with the rules of the two channels exchanged
DirectionWithRulesExchanged(tc) ==
    [tc EXCEPT
        !.direction =
            IF tc.primary_crossed_zero
            THEN (IF tc.primary_channel.wave_cycle_status
                        # tc.secondary_channel.wave_cycle_status
                  THEN "Forwards" ELSE "Backwards")
            ELSE IF tc.secondary_crossed_zero
            THEN (IF tc.primary_channel.wave_cycle_status
                        = tc.secondary_channel.wave_cycle_status
                  THEN "Forwards" ELSE "Backwards")
            ELSE @,
        !.pitch =
            IF tc.primary_crossed_zero \/ tc.secondary_crossed_zero
            THEN update_after_zero_crossing(@, tc.primary_sample, tc.secondary_sample,
                                            tc.primary_crossed_zero)
            ELSE update(@, tc.primary_sample, tc.secondary_sample)]

\* the direction with the two rules as two statements, the secondary one last
DirectionWithSecondaryLast(tc) ==
    [tc EXCEPT
        !.direction =
            IF tc.secondary_crossed_zero
            THEN (IF tc.primary_channel.wave_cycle_status
                        # tc.secondary_channel.wave_cycle_status
                  THEN "Forwards" ELSE "Backwards")
            ELSE IF tc.primary_crossed_zero
            THEN (IF tc.primary_channel.wave_cycle_status
                        = tc.secondary_channel.wave_cycle_status
                  THEN "Forwards" ELSE "Backwards")
            ELSE @,
        !.pitch =
            IF tc.primary_crossed_zero \/ tc.secondary_crossed_zero
            THEN update_after_zero_crossing(@, tc.primary_sample, tc.secondary_sample,
                                            tc.primary_crossed_zero)
            ELSE update(@, tc.primary_sample, tc.secondary_sample)]

\* the direction and the pitch detector, for a Timecode whose channels have
\* processed the sample
DirectionDetected(tc) ==
    [tc EXCEPT
        !.direction =
            IF tc.primary_crossed_zero
            THEN (IF tc.primary_channel.wave_cycle_status
                        = tc.secondary_channel.wave_cycle_status
                  THEN "Forwards" ELSE "Backwards")
            ELSE IF tc.secondary_crossed_zero
            THEN (IF tc.primary_channel.wave_cycle_status
                        # tc.secondary_channel.wave_cycle_status
                  THEN "Forwards" ELSE "Backwards")
            ELSE @,
        !.pitch =
            IF tc.primary_crossed_zero \/ tc.secondary_crossed_zero
            THEN update_after_zero_crossing(@, tc.primary_sample, tc.secondary_sample,
                                            tc.primary_crossed_zero)
            ELSE update(@, tc.primary_sample, tc.secondary_sample)]

\* a bit is read where the primary channel crossed zero
EmitsOnPrimaryCrossing(tc) ==
    tc.primary_crossed_zero /\ tc.primary_channel.wave_cycle_status = "Positive"

\* the condition under which process_channels reads a bit
EmitsBit(tc) ==
    tc.secondary_crossed_zero /\ tc.primary_channel.wave_cycle_status = "Positive"

\* the primary channel reads the bit
BitRead_from_primary(tc) ==
    [tc EXCEPT !.primary_channel = bit_from_sample(@, tc.primary_sample),
               !.bit = BitRead(bit_from_sample(tc.primary_channel, tc.primary_sample))]

\* the bit goes to the bitstream in the detected direction
BitProcessed(tc) ==
    [tc EXCEPT !.bitstream =
        IF tc.direction = "Forwards"
        THEN process_bit(@, IF tc.bit THEN 1 ELSE 0)
        ELSE process_bit_backward(@, IF tc.bit THEN 1 ELSE 0)]

\* the bit emission that pushes the last bit again where no bit is read
BitEmittedOnEveryCall(tc) ==
    IF EmitsBit(tc)
    THEN [ timecode |-> BitProcessed(BitRead_from_primary(tc)),
           returned |-> Some(<<BitRead_from_primary(tc).bit,
                               position(BitProcessed(BitRead_from_primary(tc)).bitstream)>>) ]
    ELSE [ timecode |-> BitProcessed(tc), returned |-> None ]

\* the Timecode after the bit emission and the value returned, for a Timecode
\* whose direction and pitch have been updated
BitEmitted(tc) ==
    IF EmitsBit(tc)
    THEN [ timecode |-> BitProcessed(BitRead_from_primary(tc)),
           returned |-> Some(<<BitRead_from_primary(tc).bit,
                               position(BitProcessed(BitRead_from_primary(tc)).bitstream)>>) ]
    ELSE [ timecode |-> tc, returned |-> None ]

\* the Timecode after process_channels, and the value the call returns
process_channels(tc, primary_sample, secondary_sample) ==
    BitEmitted(DirectionDetected(ChannelsProcessed(tc, primary_sample, secondary_sample)))

(***************************************************************************)
(* A caller of Timecode: a fresh Timecode is fed sample pairs.  `history`  *)
(* is the sequence of the pairs fed so far, `returned` the value of the    *)
(* last call.                                                              *)
(***************************************************************************)
Samples == {-16383, 0, 16383}

MaxCalls == 4

MaxSilence == 8

Silent == \A i \in 1..Len(history) : history[i] = <<0, 0>>

TimecodeInit ==
    /\ format = TestLookupTableFormat
    /\ \E sample_rate_hz \in SampleRates : timecode = Timecode_new(format, sample_rate_hz)
    /\ returned = None
    /\ history = <<>>
    /\ pc = "timecode"
    /\ lfsr = Unused
    /\ period = Unused
    /\ path = Unused
    /\ visualizer = Unused
    /\ buffer = Unused
    /\ bitstream = Unused
    /\ call = Unused
    /\ generator = Unused

Returns(result) ==
    /\ timecode' = result.timecode
    /\ returned' = result.returned

\* one call of process_channels; silence may last longer than other input
ProcessChannels ==
    /\ pc = "timecode"
    /\ \E primary_sample, secondary_sample \in Samples :
          /\ \/ Len(history) < MaxCalls
             \/ /\ Len(history) < MaxSilence
                /\ Silent
                /\ primary_sample = 0
                /\ secondary_sample = 0
          /\ Returns(process_channels(timecode, primary_sample, secondary_sample))
          /\ history' = Append(history, <<primary_sample, secondary_sample>>)
    /\ UNCHANGED <<lfsr, period, path, pc, format, visualizer, buffer, bitstream,
                   call, generator>>

TimecodeNext == ProcessChannels

SpecTimecode == TimecodeInit /\ [][TimecodeNext]_vars

\* C9: as long as every pair fed to a fresh Timecode is (0, 0), every call of
\* process_channels returns None, neither channel reports a zero crossing, and
\* the window of the bitstream and the direction are the initial ones.
C9_SilenceYieldsNoEvent ==
    (Len(history) > 0 /\ Silent) =>
        /\ returned = None
        /\ ~timecode.primary_channel.crossed_zero
        /\ ~timecode.secondary_channel.crossed_zero
        /\ ~timecode.primary_crossed_zero
        /\ ~timecode.secondary_crossed_zero
        /\ Timecode_state(timecode) = format.seed
        /\ timecode.bitstream.valid_bits = format.size
        /\ timecode.direction = "Forwards"

C9_Witness ==
    /\ pc = "timecode"
    /\ Len(history) = MaxSilence
    /\ Silent
    /\ returned = None

\* C10: a call of process_channels returns Some((bit, position)) exactly when
\* the secondary channel reported a zero crossing for the sample and the
\* status of the primary channel after the sample is Positive, and None on
\* every other call.
C10_SomeIffBitEvent ==
    (pc = "timecode" /\ Len(history) > 0) =>
        /\ returned # None <=>
              /\ timecode.secondary_channel.crossed_zero
              /\ timecode.primary_channel.wave_cycle_status = "Positive"
        /\ returned # None =>
              returned = Some(<<timecode.bit, position(timecode.bitstream)>>)

C10_Witness ==
    /\ pc = "timecode"
    /\ Len(history) = 2
    /\ returned = Some(<<TRUE, Some(1)>>)
    /\ timecode.secondary_channel.crossed_zero
    /\ timecode.primary_crossed_zero

(***************************************************************************)
(* The bitstream of a maximum-length format.  The lookup table of such a   *)
(* format holds every window but zero, the seed at position 0, and         *)
(* next_state(w) one position after w unless it is the seed again.  The    *)
(* table is then represented by the register that fills it, and the        *)
(* comparisons of positions are decided on the windows.                    *)
(***************************************************************************)
BitstreamOfMaximalLength(size, seed, taps) ==
    [ lfsr |-> FibonacciLfsr(size, seed, taps),
      size |-> size,
      bitstream |-> seed,
      valid_bits |-> size ]

\* position() is Some
HasPosition(b) == is_valid(b) /\ b.bitstream # 0

\* the position of `to` is the position of `from` plus one
Consecutive(b, from, to) ==
    /\ to = next_state([b.lfsr EXCEPT !.state = from])
    /\ to # b.lfsr.state

ProcessBitOfMaximalLength(b, bit) ==
    LET shifted == [b EXCEPT !.bitstream = insert_msb(b.size, b.bitstream, bit)]
        discard == /\ HasPosition(b)
                   /\ HasPosition(shifted)
                   /\ ~Consecutive(b, b.bitstream, shifted.bitstream)
    IN  [shifted EXCEPT !.valid_bits = (IF discard THEN 0 ELSE @) + 1]

ProcessBitBackwardOfMaximalLength(b, bit) ==
    LET shifted == [b EXCEPT !.bitstream = insert_lsb(b.size, b.bitstream, bit)]
        discard == /\ HasPosition(b)
                   /\ HasPosition(shifted)
                   /\ ~Consecutive(b, shifted.bitstream, b.bitstream)
    IN  [shifted EXCEPT !.valid_bits = (IF discard THEN 0 ELSE @) + 1]

\* the bitstream b of a maximum-length format, in this representation
OfMaximalLength(b, f) ==
    [ lfsr |-> FibonacciLfsr(f.size, f.seed, f.taps),
      size |-> b.size,
      bitstream |-> b.bitstream,
      valid_bits |-> b.valid_bits ]

\* On the bitstreams of the 8-bit formats the representation agrees with the
\* lookup table, for both bits and both directions.
MaximalLengthAgrees ==
    pc = "bitstream" =>
        \A bit \in {0, 1} :
            /\ ProcessBitOfMaximalLength(OfMaximalLength(bitstream, format), bit)
                  = OfMaximalLength(process_bit(bitstream, bit), format)
            /\ ProcessBitBackwardOfMaximalLength(OfMaximalLength(bitstream, format), bit)
                  = OfMaximalLength(process_bit_backward(bitstream, bit), format)
            /\ HasPosition(OfMaximalLength(bitstream, format))
                  <=> position(bitstream) # None

Timecode_new_OfMaximalLength(f, sample_rate_hz) ==
    TimecodeAround(BitstreamOfMaximalLength(f.size, f.seed, f.taps), sample_rate_hz,
                   f.signal_frequency_hz)

BitProcessedOfMaximalLength(tc) ==
    [tc EXCEPT !.bitstream =
        IF tc.direction = "Forwards"
        THEN ProcessBitOfMaximalLength(@, IF tc.bit THEN 1 ELSE 0)
        ELSE ProcessBitBackwardOfMaximalLength(@, IF tc.bit THEN 1 ELSE 0)]

\* the Timecode after the bit emission
BitEmittedOfMaximalLength(tc) ==
    IF EmitsBit(tc) THEN BitProcessedOfMaximalLength(BitRead_from_primary(tc)) ELSE tc

\* the Timecode of a maximum-length format after process_channels
ProcessChannelsOfMaximalLength(tc, primary_sample, secondary_sample) ==
    BitEmittedOfMaximalLength(
        DirectionDetected(ChannelsProcessed(tc, primary_sample, secondary_sample)))

(***************************************************************************)
(* TimecodeAudioGenerator (generator.rs)                                   *)
(*                                                                         *)
(* For the signal frequency 1000 Hz, XOfBAtR[index + 1] is                 *)
(* scale_sample of the primary (Sine) or secondary (Cosine) sample that    *)
(* sample_from_cycle gives for cycle = index * 1000 / R and the bit B,     *)
(* faded in while cycle < 1: round(sin(2 pi cycle) * [0.75] * [cycle]      *)
(* * 32767 * 0.5), ties away from zero.                                    *)
(***************************************************************************)
SineOfZeroAt44100 ==
    << 0, 40, 157, 347, 601, 911, 1261, 1638, 2025, 2404, 2757, 3065, 3311,
       3480, 3556, 3527, 3384, 3122, 2736, 2229, 1605, 872, 44, -865,
       -1834, -2842, -3865, -4877, -5850, -6756, -7569, -8263, -8812,
       -9194, -9391, -9388, -9172, -8739, -8087, -7219, -6147, -4883,
       -3449, -1870, -175, 1571, 3286, 4934, 6482, 7898, 9155, 10226,
       11090, 11729, 12130, 12286, 12192, 11852, 11271, 10462, 9441, 8229,
       6849, 5331, 3705, 2004, 263, -1484, -3201, -4853, -6407, -7831 >>

SineOfOneAt44100 ==
    << 0, 53, 209, 462, 802, 1214, 1682, 2185, 2700, 3205, 3676, 4087,
       4415, 4640, 4741, 4703, 4512, 4162, 3648, 2972, 2139, 1163, 58,
       -1153, -2445, -3790, -5154, -6502, -7799, -9008, -10093, -11017,
       -11749, -12259, -12522, -12517, -12230, -11652, -10782, -9626,
       -8195, -6511, -4599, -2493, -233, 2095, 4381, 6578, 8642, 10531,
       12207, 13635, 14786, 15638, 16173, 16381, 16256, 15802, 15028,
       13949, 12588, 10971, 9132, 7109, 4941, 2672, 350, -1979, -4269,
       -6471, -8543, -10441 >>

CosineOfZeroAt44100 ==
    << 0, 276, 535, 761, 938, 1054, 1097, 1058, 931, 714, 405, 11, -463,
       -1006, -1604, -2242, -2902, -3563, -4203, -4802, -5337, -5786,
       -6130, -6350, -6431, -6360, -6127, -5728, -5162, -4432, -3546,
       -2517, -1360, -98, 1245, 2641, 4060, 5469, 6835, 8122, 9297, 10328,
       11183, 11834, 12259, 12187, 11840, 11254, 10439, 9413, 8196, 6813,
       5292, 3664, 1961, 219, -1528, -3244, -4894, -6445, -7865, -9126,
       -10202, -11071, -11716, -12123, -12285, -12198, -11863, -11288,
       -10485, -9469 >>

CosineOfOneAt44100 ==
    << 0, 368, 713, 1014, 1251, 1406, 1463, 1411, 1242, 951, 541, 15, -617,
       -1341, -2139, -2990, -3869, -4750, -5604, -6403, -7115, -7715,
       -8173, -8467, -8574, -8479, -8170, -7638, -6883, -5910, -4728,
       -3355, -1814, -131, 1660, 3522, 5414, 7292, 9113, 10829, 12396,
       13770, 14910, 15779, 16345, 16249, 15787, 15005, 13919, 12550,
       10928, 9084, 7056, 4885, 2615, 292, -2037, -4325, -6525, -8593,
       -10486, -12168, -13602, -14761, -15621, -16164, -16380, -16264,
       -15818, -15051, -13980, -12625 >>

SineOfZeroAt48000 ==
    << 0, 33, 133, 294, 512, 779, 1086, 1422, 1774, 2129, 2473, 2792, 3072,
       3299, 3462, 3548, 3547, 3453, 3258, 2961, 2560, 2057, 1458, 769, 0,
       -835, -1723, -2645, -3584, -4519, -5430, -6296, -7094, -7805, -8407,
       -8883, -9216, -9391, -9396, -9224, -8868, -8327, -7603, -6701,
       -5632, -4408, -3048, -1570, 0, 1604, 3180, 4702, 6144, 7480, 8689,
       9748, 10641, 11352, 11869, 12183, 12288, 12183, 11869, 11352, 10641,
       9748, 8689, 7480, 6144, 4702, 3180, 1604 >>

SineOfOneAt48000 ==
    << 0, 45, 177, 392, 683, 1039, 1448, 1896, 2365, 2838, 3297, 3722,
       4096, 4399, 4616, 4730, 4730, 4603, 4344, 3948, 3413, 2743, 1943,
       1025, 0, -1114, -2297, -3527, -4779, -6026, -7241, -8394, -9459,
       -10406, -11210, -11844, -12288, -12521, -12528, -12298, -11824,
       -11102, -10137, -8935, -7509, -5878, -4064, -2094, 0, 2138, 4240,
       6270, 8192, 9974, 11585, 12998, 14189, 15136, 15825, 16243, 16384,
       16243, 15825, 15136, 14189, 12998, 11585, 9974, 8192, 6270, 4240,
       2138 >>

CosineOfZeroAt48000 ==
    << 0, 254, 495, 710, 887, 1015, 1086, 1091, 1024, 882, 663, 368, 0,
       -434, -928, -1469, -2048, -2649, -3258, -3859, -4434, -4967, -5440,
       -5837, -6144, -6345, -6429, -6386, -6207, -5890, -5430, -4831,
       -4096, -3233, -2253, -1169, 0, 1236, 2518, 3821, 5120, 6389, 7603,
       8733, 9755, 10643, 11374, 11929, 12288, 12183, 11869, 11352, 10641,
       9748, 8689, 7480, 6144, 4702, 3180, 1604, 0, -1604, -3180, -4702,
       -6144, -7480, -8689, -9748, -10641, -11352, -11869, -12183 >>

CosineOfOneAt48000 ==
    << 0, 338, 659, 946, 1182, 1354, 1448, 1454, 1365, 1176, 883, 490, 0,
       -579, -1237, -1959, -2731, -3532, -4344, -5145, -5912, -6622, -7253,
       -7783, -8192, -8460, -8572, -8514, -8277, -7853, -7241, -6441,
       -5461, -4310, -3004, -1559, 0, 1648, 3357, 5094, 6826, 8519, 10137,
       11644, 13006, 14190, 15166, 15905, 16384, 16243, 15825, 15136,
       14189, 12998, 11585, 9974, 8192, 6270, 4240, 2138, 0, -2138, -4240,
       -6270, -8192, -9974, -11585, -12998, -14189, -15136, -15825,
       -16243 >>

Sine(sample_rate_hz, index, bit) ==
    IF sample_rate_hz = 44100
    THEN (IF bit THEN SineOfOneAt44100 ELSE SineOfZeroAt44100)[index + 1]
    ELSE (IF bit THEN SineOfOneAt48000 ELSE SineOfZeroAt48000)[index + 1]

Cosine(sample_rate_hz, index, bit) ==
    IF sample_rate_hz = 44100
    THEN (IF bit THEN CosineOfOneAt44100 ELSE CosineOfZeroAt44100)[index + 1]
    ELSE (IF bit THEN CosineOfOneAt48000 ELSE CosineOfZeroAt48000)[index + 1]

\* the register after revert() and advance(), with the bit that new() reads
\* in between: bit size - 2 of the reverted state
GeneratorAround(reverted, f, sample_rate_hz) ==
    [ lfsr |-> advance(reverted),
      sample_rate_hz |-> sample_rate_hz,
      signal_frequency_hz |-> f.signal_frequency_hz,
      previous_bit |-> BitAnd(Shr(reverted.state, reverted.size - 2), 1) = 1,
      cycle_index |-> 0,
      index |-> 0 ]

\* new() asserts that the register is at the seed again
TimecodeAudioGenerator_new(f, sample_rate_hz) ==
    GeneratorAround(revert(FibonacciLfsr(f.size, f.seed, f.taps)), f, sample_rate_hz)

TimecodeAudioGenerator_state(g) == g.lfsr.state

\* cycle.trunc() for cycle = index * signal_frequency_hz / sample_rate_hz
CycleIndex(g) == (g.index * g.signal_frequency_hz) \div g.sample_rate_hz

\* cycle_position >= 0.75
InLastQuarter(g) ==
    4 * ((g.index * g.signal_frequency_hz) % g.sample_rate_hz) >= 3 * g.sample_rate_hz

\* the generator after the conditional advance of next_sample
\* the advance made at every sample of the last quarter
CycleEnteredAtEverySample(g) ==
    IF InLastQuarter(g)
    THEN [g EXCEPT !.cycle_index = CycleIndex(g) + 1,
                   !.previous_bit = BitAnd(Shr(g.lfsr.state, g.lfsr.size - 1), 1) = 1,
                   !.lfsr = advance(@)]
    ELSE g

CycleEntered(g) ==
    IF CycleIndex(g) = g.cycle_index /\ InLastQuarter(g)
    THEN [g EXCEPT !.cycle_index = CycleIndex(g) + 1,
                   !.previous_bit = BitAnd(Shr(g.lfsr.state, g.lfsr.size - 1), 1) = 1,
                   !.lfsr = advance(@)]
    ELSE g

SecondaryBit(g) == Shr(g.lfsr.state, g.lfsr.size - 1) = 1

\* the primary bit taken from the register in the last quarter too
PrimaryBitOfRegister(g) == SecondaryBit(g)

PrimaryBit(g) == IF InLastQuarter(g) THEN g.previous_bit ELSE SecondaryBit(g)

\* the pair of samples, for a generator after the conditional advance
SamplePair(g) ==
    << Sine(g.sample_rate_hz, g.index, PrimaryBit(g)),
       Cosine(g.sample_rate_hz, g.index, SecondaryBit(g)) >>

\* the generator after next_sample, and the pair the call returns
next_sample(g) ==
    [ generator |-> [CycleEntered(g) EXCEPT !.index = @ + 1],
      sample |-> SamplePair(CycleEntered(g)) ]

(***************************************************************************)
(* test_format (format.rs): the generator feeds a Timecode of the same     *)
(* format.  `call` holds the locals of the test; pc is "panicked" once an  *)
(* assert_eq! has failed.                                                  *)
(***************************************************************************)
WarmUpSamples == 20

MaxSamples == 64

RoundTripInit ==
    /\ format = SERATO_CONTROL_CD_1_0_0
    /\ \E sample_rate_hz \in SampleRates :
          /\ generator = TimecodeAudioGenerator_new(format, sample_rate_hz)
          /\ timecode = Timecode_new_OfMaximalLength(format, sample_rate_hz)
    /\ call = [ initial_state |-> TimecodeAudioGenerator_state(generator),
                previous_timecode_state |-> Timecode_state(timecode),
                state_changed |-> FALSE ]
    /\ pc = IF Timecode_state(timecode) = TimecodeAudioGenerator_state(generator)
            THEN "warm-up" ELSE "panicked"
    /\ returned = Unused
    /\ history = Unused
    /\ lfsr = Unused
    /\ period = Unused
    /\ path = Unused
    /\ visualizer = Unused
    /\ buffer = Unused
    /\ bitstream = Unused

\* the generator's next pair goes to process_channels
Fed(generated) ==
    /\ generator' = generated.generator
    /\ timecode' = ProcessChannelsOfMaximalLength(timecode, generated.sample[1],
                                                  generated.sample[2])

\* one turn of the loop that skips the first samples
WarmUp ==
    /\ pc = "warm-up"
    /\ Fed(next_sample(generator))
    /\ pc' = IF generator'.index = WarmUpSamples THEN "set_state" ELSE "warm-up"
    /\ UNCHANGED <<lfsr, period, path, format, visualizer, buffer, bitstream, call,
                   history, returned>>

SetState ==
    /\ pc = "set_state"
    /\ timecode' = Timecode_set_state(timecode, TimecodeAudioGenerator_state(generator))
    /\ pc' = "loop"
    /\ UNCHANGED <<lfsr, period, path, format, visualizer, buffer, bitstream, call,
                   history, returned,
                   generator>>

\* one turn of the loop that compares the states
Compare ==
    /\ pc = "loop"
    /\ generator.index < MaxSamples
    /\ Fed(next_sample(generator))
    /\ IF Timecode_state(timecode') # call.previous_timecode_state
       THEN IF Timecode_state(timecode') = TimecodeAudioGenerator_state(generator')
            THEN /\ call' = [call EXCEPT
                                !.previous_timecode_state = Timecode_state(timecode'),
                                !.state_changed = TRUE]
                 /\ pc' = IF TimecodeAudioGenerator_state(generator') = call.initial_state
                          THEN "done" ELSE "loop"
            ELSE /\ call' = call
                 /\ pc' = "panicked"
       ELSE /\ call' = call
            /\ pc' = IF /\ call.state_changed
                        /\ TimecodeAudioGenerator_state(generator') = call.initial_state
                     THEN "done" ELSE "loop"
    /\ UNCHANGED <<lfsr, period, path, format, visualizer, buffer, bitstream,
                   history, returned>>

RoundTripNext == WarmUp \/ SetState \/ Compare

SpecRoundTrip == RoundTripInit /\ [][RoundTripNext]_vars

\* C1: for the canonical format at 44100 Hz and at 48000 Hz, after the 20
\* warm-up pairs and set_state, whenever the state of the Timecode differs
\* from its previous value it is the state of the generator at that step.
C1_RoundTrip ==
    (pc \in {"loop", "panicked", "done"}
        /\ Timecode_state(timecode) # call.previous_timecode_state)
    => Timecode_state(timecode) = TimecodeAudioGenerator_state(generator)

(***************************************************************************)
(* Construction: Timecode::new for formats of any size, seed and taps.     *)
(* Neither Timecode::new nor Bitstream::new checks its arguments.  The     *)
(* only failure is 2u32.pow(size) for size >= 32: with overflow checks     *)
(* the call panics, without them the capacity wraps to u32::MAX and the    *)
(* outcome depends on whether a table of that capacity can be allocated.   *)
(***************************************************************************)
\* the sizes 2u32.pow(size) overflows for, as far as the model tries them
OverflowingSizes == {32, 33}

ConstructionSizes == 0..5 \cup OverflowingSizes

ConstructionSeeds == 0..3

ConstructionTaps == 0..3

ConstructionInit ==
    /\ \E size \in ConstructionSizes, seed \in ConstructionSeeds, taps \in ConstructionTaps :
          format = TimecodeFormat(size, seed, taps)
    /\ pc = "new"
    /\ timecode = Unused
    /\ returned = Unused
    /\ history = Unused
    /\ lfsr = Unused
    /\ period = Unused
    /\ path = Unused
    /\ visualizer = Unused
    /\ buffer = Unused
    /\ bitstream = Unused
    /\ call = Unused
    /\ generator = Unused

\* Timecode::new(&format, sample_rate_hz) returns an object
TimecodeNewReturns ==
    /\ pc = "new"
    /\ format.size \notin OverflowingSizes
    /\ \E sample_rate_hz \in SampleRates : timecode' = Timecode_new(format, sample_rate_hz)
    /\ pc' = "constructed"
    /\ UNCHANGED <<lfsr, period, path, format, visualizer, buffer, bitstream, call,
                   history, returned, generator>>

\* Timecode::new(&format, sample_rate_hz) where 2u32.pow(size) overflows: a
\* panic, or an object whose table the model does not build
TimecodeNewOverflows ==
    /\ pc = "new"
    /\ format.size \in OverflowingSizes
    /\ pc' \in {"panicked", "constructed"}
    /\ UNCHANGED <<lfsr, period, path, format, visualizer, buffer, bitstream, call,
                   history, returned, generator,
                   timecode>>

ConstructionNext == TimecodeNewReturns \/ TimecodeNewOverflows

SpecConstruction == ConstructionInit /\ [][ConstructionNext]_vars

\* C11: Timecode::new fails, and returns no object, for every format whose
\* size lies outside 2..=31.
C11_RejectsBadWidths ==
    format.size \notin 2..31 => pc # "constructed"

\* C12: Timecode::new fails, and returns no object, for every format with
\* seed = 0 or taps = 0.
C12_RejectsZeroSeedAndTaps ==
    (format.seed = 0 \/ format.taps = 0) => pc # "constructed"

(***************************************************************************)
(* A caller that feeds a fresh Timecode the extreme samples of i16.  An    *)
(* i32 operation that overflows panics in a build with overflow checks and *)
(* wraps in a build without them.  `call` says which operations of the     *)
(* last call overflowed.                                                   *)
(***************************************************************************)
FullScaleSamples == {-32768, -32767, 0, 32767}

MaxFullScaleCalls == 3

\* an overflow in ewma.process(sample) of one of the two channels
ChannelsOverflow(tc, primary_sample, secondary_sample) ==
    \/ SmoothenOverflows(tc.primary_channel.ewma, sample_to_i32(primary_sample))
    \/ SmoothenOverflows(tc.secondary_channel.ewma, sample_to_i32(secondary_sample))

\* an overflow of abs() in update_after_zero_crossing, for the pitch detector
\* before the call and a Timecode whose channels have processed the sample
PitchOverflows(pitch, tc) ==
    IF tc.primary_crossed_zero
    THEN AbsOverflows(tc.primary_sample) \/ AbsOverflows(pitch.last_primary_sample)
    ELSE /\ tc.secondary_crossed_zero
         /\ AbsOverflows(tc.secondary_sample) \/ AbsOverflows(pitch.last_secondary_sample)

\* an overflow of the difference in bit_from_sample, for a Timecode whose
\* direction has been detected
BitDifferenceOverflows(tc) ==
    EmitsBit(tc) /\ DifferenceOverflows(tc.primary_channel.ewma, tc.primary_sample)

\* an overflow of abs() in bit_from_sample
BitAbsOverflows(tc) ==
    EmitsBit(tc) /\ AbsOverflows(difference_to(tc.primary_channel.ewma, tc.primary_sample))

\* what overflows in process_channels(primary_sample, secondary_sample)
Overflows(tc, primary_sample, secondary_sample) ==
    [ primary_sample |-> primary_sample,
      secondary_sample |-> secondary_sample,
      channel |-> \/ ChannelsOverflow(tc, primary_sample, secondary_sample)
                  \/ BitDifferenceOverflows(DirectionDetected(
                         ChannelsProcessed(tc, primary_sample, secondary_sample))),
      abs |-> \/ PitchOverflows(tc.pitch,
                     ChannelsProcessed(tc, primary_sample, secondary_sample))
              \/ BitAbsOverflows(DirectionDetected(
                     ChannelsProcessed(tc, primary_sample, secondary_sample))) ]

FullScaleInit ==
    /\ format = TestLookupTableFormat
    /\ \E sample_rate_hz \in SampleRates : timecode = Timecode_new(format, sample_rate_hz)
    /\ returned = None
    /\ history = <<>>
    /\ call = [primary_sample |-> 0, secondary_sample |-> 0, channel |-> FALSE, abs |-> FALSE]
    /\ pc = "timecode"
    /\ lfsr = Unused
    /\ period = Unused
    /\ path = Unused
    /\ visualizer = Unused
    /\ buffer = Unused
    /\ bitstream = Unused
    /\ generator = Unused

\* the call, given what overflows in it: it returns, with wrapped values if
\* something overflows, or it panics at an overflow
Outcome(overflows, result) ==
    /\ call' = overflows
    /\ history' = Append(history, <<overflows.primary_sample, overflows.secondary_sample>>)
    /\ \/ /\ Returns(result)
          /\ pc' = "timecode"
       \/ /\ overflows.channel \/ overflows.abs
          /\ pc' = "panicked"
          /\ UNCHANGED <<timecode, returned>>

ProcessFullScale ==
    /\ pc = "timecode"
    /\ Len(history) < MaxFullScaleCalls
    /\ \E primary_sample, secondary_sample \in FullScaleSamples :
          Outcome(Overflows(timecode, primary_sample, secondary_sample),
                  process_channels(timecode, primary_sample, secondary_sample))
    /\ UNCHANGED <<lfsr, period, path, format, visualizer, buffer, bitstream,
                   generator>>

FullScaleNext == ProcessFullScale

SpecFullScale == FullScaleInit /\ [][FullScaleNext]_vars

\* C13: for every sequence of i16 sample pairs fed to process_channels, the
\* differences x - ewma.last_output and the updated ewma.last_output lie in
\* the i32 range, so that no call fails.
C13_NoOverflowInChannel ==
    /\ ~call.channel
    /\ pc = "panicked" => call.abs

(***************************************************************************)
(* Backward pushes and the end of test_lookup_table, on SpecBitstream      *)
(***************************************************************************)
\* the bit that makes the window the previous state of the register at w
PreviousBit(w) ==
    BitAnd(count_ones(BitAnd(w, rotate_right(format.size, format.taps))), 1)

\* C14: at a defined position p >= 1 with window w, process_bit_backward(b)
\* with b the bit that makes the window the LFSR's previous state yields
\* position() = Some(p - 1) and increases valid_bits by 1; a forward push that
\* follows the sequence after backward ones leaves the bitstream valid; the
\* test goes 185 -> 184 -> 183 -> 184 with valid_bits 11, 12, 13, 14.
C14_BackwardTracking ==
    /\ ( /\ call.name = "process_bit_backward"
         /\ position(Before) # None
         /\ Unwrap(position(Before)) >= 1
         /\ call.bit = PreviousBit(call.bitstream) )
          => /\ bitstream.bitstream = previous_state(RegisterAt(call.bitstream))
             /\ position(bitstream) = Some(Unwrap(position(Before)) - 1)
             /\ bitstream.valid_bits = call.valid_bits + 1
    /\ ( /\ call.name = "process_bit"
         /\ position(Before) # None
         /\ Unwrap(position(Before)) < LastPosition
         /\ call.bit = FeedbackBit(call.bitstream) )
          => is_valid(bitstream)
    /\ (OnScript(history, TestLookupTableScript) /\ Len(history) >= 15)
          => /\ position(bitstream) = TestLookupTableScript[Len(history)][3]
             /\ bitstream.valid_bits = TestLookupTableScript[Len(history)][4]
             /\ <<position(bitstream), bitstream.valid_bits>>
                    = << <<Some(185), 11>>, <<Some(184), 12>>, <<Some(183), 13>>,
                         <<Some(184), 14>> >>[Len(history) - 14]

C14_Witness ==
    /\ OnScript(history, TestLookupTableScript)
    /\ Len(history) = 17
    /\ call.name = "process_bit_backward"
    /\ call.bit = PreviousBit(call.bitstream)
    /\ position(Before) = Some(184)
    /\ position(bitstream) = Some(183)
    /\ bitstream.valid_bits = 13

\* C16 as stated: on a fresh Bitstream::new(8, 0b00000001, 0b00011101) the
\* calls process_bit(0), (0), (1), (0), process_bit_backward(1), (0),
\* process_bit(1) end with position() = Some(184) and valid_bits = 14.
C16_Scenario3FromFresh ==
    (OnScript(history, Scenario3Script) /\ Len(history) = Len(Scenario3Script))
        => position(bitstream) = Some(184) /\ bitstream.valid_bits = 14

\* C16, amended: the calls process_bit(0), (1), (0), process_bit_backward(1),
\* (0), process_bit(1) end with position() = Some(184) and valid_bits = 14
\* when they follow scenario 2, that is from window 0b11001100 at position
\* 182 with valid_bits 8; on a fresh Bitstream the seven calls of the
\* scenario end with position() = None and valid_bits = 3.
C16_Scenario3AfterScenario2 ==
    /\ (OnScript(history, TestLookupTableScript) /\ Len(history) = 12)
          => /\ bitstream.bitstream = 204
             /\ position(bitstream) = Some(182)
             /\ bitstream.valid_bits = 8
    /\ (OnScript(history, TestLookupTableScript)
            /\ Len(history) = Len(TestLookupTableScript))
          => /\ SubSeq(history, 13, 18) = SubSeq(Scenario3Script, 2, 7)
             /\ position(bitstream) = Some(184)
             /\ bitstream.valid_bits = 14
    /\ (OnScript(history, Scenario3Script) /\ Len(history) = Len(Scenario3Script))
          => position(bitstream) = None /\ bitstream.valid_bits = 3

C16_Witness ==
    /\ OnScript(history, TestLookupTableScript)
    /\ Len(history) = Len(TestLookupTableScript)
    /\ call.name = "process_bit"
    /\ position(Before) = Some(183)
    /\ position(bitstream) = Some(184)
    /\ bitstream.valid_bits = 14

(***************************************************************************)
(* The loops that run a generator of the canonical format until its state  *)
(* is the initial one again: test_generator (generator.rs), which compares *)
(* after every next_sample, and main of examples/generate.rs, which waits  *)
(* for the state to change first.  `call` holds the locals of the loop.    *)
(* The generator changes its register only in the sample that advances it, *)
(* once per cycle, so the loop of generate.rs is gone through ChunkSize    *)
(* cycles at a time.                                                       *)
(***************************************************************************)
GenerateSampleRate == 44100

GenerateLoops == {"test_generator", "generate"}

GenerateInit ==
    /\ format = SERATO_CONTROL_CD_1_0_0
    /\ generator = TimecodeAudioGenerator_new(format, GenerateSampleRate)
    /\ \E loop \in GenerateLoops :
          call = [ loop |-> loop,
                   initial_state |-> TimecodeAudioGenerator_state(generator),
                   state_changed |-> FALSE ]
    /\ pc = "loop"
    /\ lfsr = Unused
    /\ period = Unused
    /\ path = Unused
    /\ visualizer = Unused
    /\ buffer = Unused
    /\ bitstream = Unused
    /\ history = Unused
    /\ timecode = Unused
    /\ returned = Unused

\* one turn of the loop of test_generator: next_sample, then the comparison
TestGeneratorTurn ==
    /\ pc = "loop"
    /\ call.loop = "test_generator"
    /\ generator' = next_sample(generator).generator
    /\ pc' = IF TimecodeAudioGenerator_state(generator') = call.initial_state
             THEN "done" ELSE "loop"
    /\ UNCHANGED <<lfsr, period, path, format, visualizer, buffer, bitstream, call,
                   history, timecode,
                   returned>>

\* the index of the sample in which next_sample advances the register out
\* of cycle c: the first index with index * signal_frequency_hz /
\* sample_rate_hz >= c + 0.75
AdvanceIndex(g, c) ==
    ( (4 * c + 3) * (g.sample_rate_hz \div Gcd(g.sample_rate_hz, 4 * g.signal_frequency_hz))
        + (4 * g.signal_frequency_hz) \div Gcd(g.sample_rate_hz, 4 * g.signal_frequency_hz)
        - 1 )
      \div ((4 * g.signal_frequency_hz) \div Gcd(g.sample_rate_hz, 4 * g.signal_frequency_hz))

\* AdvanceIndex against next_sample: a generator that took its samples one
\* call at a time has advanced out of the cycles whose AdvanceIndex it has
\* passed, and out of no other
AdvanceIndexAgrees ==
    generator # Unused =>
        \A c \in 0..(generator.cycle_index + 1) :
            (c < generator.cycle_index) = (AdvanceIndex(generator, c) < generator.index)

RECURSIVE SamplesTaken(_, _)
\* the generator after n calls of next_sample, the samples left out
SamplesTaken(g, n) ==
    IF n <= 0 THEN g
    ELSE IF n = 1 THEN [CycleEntered(g) EXCEPT !.index = @ + 1]
    ELSE CHOOSE taken \in { SamplesTaken(half, n - n \div 2) :
                                 half \in {SamplesTaken(g, n \div 2)} } : TRUE

\* the generator after the call of next_sample that advances the register
\* for the k-th time since g, the register going from `from` to `to`
AfterAdvance(g, k, from, to) ==
    [g EXCEPT !.lfsr.state = to,
              !.previous_bit = BitAnd(Shr(from, g.lfsr.size - 1), 1) = 1,
              !.cycle_index = g.cycle_index + k,
              !.index = AdvanceIndex(g, g.cycle_index + k - 1) + 1]

\* the numbers of advances at which AfterAdvance is compared with the calls
AgreeCycles == {1, 2, 17, 50, 100, 1000}

\* AfterAdvance against next_sample, at both sample rates: the calls up to
\* the k-th advance leave the generator that AfterAdvance gives, and the
\* register does not move in the calls between two advances
AfterAdvanceAgrees ==
    \A rate \in SampleRates : \A k \in AgreeCycles :
        \A g \in {TimecodeAudioGenerator_new(SERATO_CONTROL_CD_1_0_0, rate)} :
            \A states \in {Orbit(g.lfsr.size, g.lfsr.state, g.lfsr.taps, k + 1)} :
                /\ SamplesTaken(g, AdvanceIndex(g, k - 1) + 1)
                       = AfterAdvance(g, k, states[k], states[k + 1])
                /\ SamplesTaken(g, AdvanceIndex(g, k - 1)).lfsr.state = states[k]

\* the turns in which the loop of generate.rs breaks: the state is the
\* initial one and state_changed was set in an earlier turn
Breaks(states) ==
    { k \in 1..Len(states) :
          /\ states[k] = call.initial_state
          /\ call.state_changed \/ \E j \in 1..(k - 1) : states[j] # call.initial_state }

\* the loop of generate.rs up to the k-th advance
GeneratedBy(states, k) ==
    /\ generator' = AfterAdvance(generator, k,
                                 IF k = 1 THEN generator.lfsr.state ELSE states[k - 1],
                                 states[k])
    /\ call' = [call EXCEPT !.state_changed =
                    @ \/ \E j \in 1..k : states[j] # call.initial_state]

\* `states` are the states of the next advances: stop at the break
GeneratedThrough(states) ==
    /\ GeneratedBy(states, IF Breaks(states) = {} THEN Len(states) ELSE Min(Breaks(states)))
    /\ pc' = IF Breaks(states) = {} THEN "loop" ELSE "done"

\* the turns of the loop of generate.rs up to the one that advances the
\* register for the ChunkSize-th time, ending early at the break
GenerateTurns ==
    /\ pc = "loop"
    /\ call.loop = "generate"
    /\ generator.cycle_index < Shl(1, generator.lfsr.size)
    /\ generator.index <= AdvanceIndex(generator, generator.cycle_index)
    /\ GeneratedThrough(Orbit(generator.lfsr.size, next_state(generator.lfsr),
                              generator.lfsr.taps, ChunkSize))
    /\ UNCHANGED <<lfsr, period, path, format, visualizer, buffer, bitstream,
                   history, timecode, returned>>

GenerateNext == TestGeneratorTurn \/ GenerateTurns

SpecGenerate == GenerateInit /\ [][GenerateNext]_vars

\* cargo test keeps running the loop of test_generator: a turn that can be
\* taken is taken
SpecGenerateLive == SpecGenerate /\ WF_vars(TestGeneratorTurn)

\* C15: for a generator of the canonical format at 44100 Hz the repeated
\* next_sample() calls bring generator.state() back to its initial value, so
\* the loop ends.  The loop of test_generator ends after its first call (the
\* register has not advanced yet).  The loop of generate.rs ends in the turn
\* that advances the register for the (2^20 - 1)-th time: until then it can
\* take a turn, every turn raises index, and index stays an i32.
C15_GeneratorReturns ==
    /\ (call.loop = "test_generator") ~> (pc = "done" /\ generator.index = 1)
    /\ [][generator'.index > generator.index]_vars
    /\ []( /\ generator.index <= MaxI32
           /\ generator.lfsr.state \in 1..mask(20)
           /\ pc = "done" => TimecodeAudioGenerator_state(generator) = call.initial_state
           /\ (pc = "done" /\ call.loop = "generate")
                  => call.state_changed /\ generator.cycle_index = 1048575
           /\ (pc = "loop" /\ call.loop = "generate")
                  => /\ generator.cycle_index < 1048575
                     /\ generator.index <= AdvanceIndex(generator, generator.cycle_index)
                     /\ call.state_changed = (generator.cycle_index > 0)
                     /\ generator.cycle_index > 0
                            => TimecodeAudioGenerator_state(generator) # call.initial_state )

C15_Witness ==
    /\ pc = "done"
    /\ call.loop = "generate"
    /\ call.state_changed
    /\ generator.cycle_index = 1048575
    /\ generator.index = 46242148
    /\ TimecodeAudioGenerator_state(generator) = 595115

(***************************************************************************)
(* Visualizer (visualizer.rs).  A usize is held by its two's complement    *)
(* reading: the 2^64 - k that an i16 of -k becomes under `as usize` is     *)
(* held as -k, so that a usize is below a length when it is in 0..len - 1. *)
(* The f32 product of normalize_sample_to_size is computed exactly and     *)
(* then rounded to the 24 bits of an f32, ties to even.                    *)
(***************************************************************************)
DECAY_INTERVAL == 50

Visualizer_new(size) ==
    [ size |-> size,
      half_size |-> size \div 2,
      samples_drawn |-> 0,
      decay_interval |-> DECAY_INTERVAL ]

\* (f32::from(x) * DECAY_FACTOR) as u8, DECAY_FACTOR the f32 next to 0.95
Decayed(x) == (19 * x) \div 20

\* decay: every pixel of the buffer, the ones that go dark leaving it
decay(pixels) ==
    [ i \in { j \in DOMAIN pixels : Decayed(pixels[j]) > 0 } |-> Decayed(pixels[i]) ]

\* `as i16` of an integer
WrapI16(v) == ((v + 32768) % 65536) - 32768

RECURSIVE UlpOfF32(_, _)
\* the power of two u >= `from` that leaves p \div u below 2^24
UlpOfF32(p, from) == IF p \div from < 16777216 THEN from ELSE UlpOfF32(p, 2 * from)

\* p rounded to a multiple of ulp, ties to even
RoundedTo(p, ulp) ==
    IF 2 * (p % ulp) > ulp \/ (2 * (p % ulp) = ulp /\ (p \div ulp) % 2 = 1)
    THEN (p \div ulp + 1) * ulp
    ELSE (p \div ulp) * ulp

\* (sample * ((half_size - 1) as f32)) as i16 for sample = f32::from(s) / 32768:
\* the product rounded to an f32, truncated, saturated
ScaledSample(v, sample) ==
    IF sample >= 0
    THEN Min({32767, RoundedTo(sample * (v.half_size - 1),
                               UlpOfF32(sample * (v.half_size - 1), 1)) \div 32768})
    ELSE - Min({32768, RoundedTo((-sample) * (v.half_size - 1),
                                 UlpOfF32((-sample) * (v.half_size - 1), 1)) \div 32768})

\* the i16 subtraction of normalize_sample_to_size leaves the i16 range
NormalizeOverflows(v, sample) ==
    WrapI16(v.half_size) - ScaledSample(v, sample) \notin -32768..32767

\* the coordinate, as a build without overflow checks computes it
normalize_sample_to_size(v, sample) ==
    WrapI16(WrapI16(v.half_size) - ScaledSample(v, sample))

coordinate_to_index(v, x, y) == x * v.size + y

\* the first statement of draw_sample: decay every decay_interval samples
DecayStep(v, pixels) ==
    IF v.samples_drawn = v.decay_interval
    THEN [visualizer |-> [v EXCEPT !.samples_drawn = 0], buffer |-> decay(pixels)]
    ELSE [visualizer |-> [v EXCEPT !.samples_drawn = @ + 1], buffer |-> pixels]

\* draw_sample panics: in normalize_sample_to_size with overflow checks,
\* else at buffer[index]
DrawPanics(v, left, right) ==
    \/ NormalizeOverflows(v, left)
    \/ NormalizeOverflows(v, right)
    \/ coordinate_to_index(v, normalize_sample_to_size(v, left),
                           normalize_sample_to_size(v, right))
           \notin 0..(v.size * v.size - 1)

\* buffer[index] = u8::MAX
Lit(pixels, index) ==
    [ i \in DOMAIN pixels \cup {index} |-> IF i = index THEN 255 ELSE pixels[i] ]

draw_sample(v, pixels, left, right) ==
    [ visualizer |-> DecayStep(v, pixels).visualizer,
      buffer |-> IF DrawPanics(v, left, right)
                 THEN DecayStep(v, pixels).buffer
                 ELSE Lit(DecayStep(v, pixels).buffer,
                          coordinate_to_index(v, normalize_sample_to_size(v, left),
                                              normalize_sample_to_size(v, right))),
      panicked |-> DrawPanics(v, left, right) ]

\* sizes that Visualizer::new accepts: even, above 10
VisualizerSizes == {12, 400, 32768, 32770, 40000}

DrawnSamples == {-32768, 32767}

MaxDraws == 52

VisualizerInit ==
    /\ \E size \in VisualizerSizes : visualizer = Visualizer_new(size)
    /\ buffer = <<>>
    /\ call = [left |-> 0, right |-> 0, x |-> 0, y |-> 0, draws |-> 0]
    /\ pc = "draw"
    /\ lfsr = Unused
    /\ period = Unused
    /\ path = Unused
    /\ format = Unused
    /\ bitstream = Unused
    /\ history = Unused
    /\ timecode = Unused
    /\ returned = Unused
    /\ generator = Unused

Drawn(left, right, result) ==
    /\ visualizer' = result.visualizer
    /\ buffer' = result.buffer
    /\ pc' = IF result.panicked THEN "panicked" ELSE "draw"
    /\ call' = [ left |-> left, right |-> right,
                 x |-> normalize_sample_to_size(visualizer, left),
                 y |-> normalize_sample_to_size(visualizer, right),
                 draws |-> call.draws + 1 ]

DrawSample ==
    /\ pc = "draw"
    /\ call.draws < MaxDraws
    /\ \E left \in DrawnSamples, right \in DrawnSamples :
          Drawn(left, right, draw_sample(visualizer, buffer, left, right))
    /\ UNCHANGED <<lfsr, period, path, format, bitstream, history, timecode, returned,
                   generator>>

SpecVisualizer == VisualizerInit /\ [][DrawSample]_vars

\* C17: for every size that Visualizer::new accepts and every i16 sample,
\* normalize_sample_to_size returns a coordinate c with 0 <= c < size, so
\* draw_sample writes its pixel inside the size * size buffer (and does not
\* panic).
C17_CoordinateInBuffer ==
    /\ pc # "panicked"
    /\ call.draws > 0
          => /\ call.x \in 0..(visualizer.size - 1)
             /\ call.y \in 0..(visualizer.size - 1)
             /\ coordinate_to_index(visualizer, call.x, call.y) \in DOMAIN buffer

(***************************************************************************)
(* advance() and revert() on a register of any width, state and tap mask:  *)
(* one of the two, then the other.  path holds the first state and the     *)
(* state between the two calls.                                            *)
(***************************************************************************)
MaxWidth == 5

InverseInit ==
    /\ \E size \in 1..MaxWidth :
          \E state \in 0..mask(size), taps \in 0..mask(size) :
              lfsr = FibonacciLfsr(size, state, taps)
    /\ path = <<lfsr.state>>
    /\ visualizer = Unused
    /\ buffer = Unused
    /\ pc = "new"
    /\ period = Unused
    /\ format = Unused
    /\ bitstream = Unused
    /\ call = Unused
    /\ history = Unused
    /\ timecode = Unused
    /\ returned = Unused
    /\ generator = Unused

InverseAdvance ==
    /\ pc \in {"new", "reverted"}
    /\ lfsr' = advance(lfsr)
    /\ path' = IF pc = "new" THEN Append(path, lfsr'.state) ELSE path
    /\ pc' = IF pc = "new" THEN "advanced" ELSE "reverted, advanced"
    /\ UNCHANGED <<period, format, visualizer, buffer, bitstream, call, history,
                   timecode, returned, generator>>

InverseRevert ==
    /\ pc \in {"new", "advanced"}
    /\ lfsr' = revert(lfsr)
    /\ path' = IF pc = "new" THEN Append(path, lfsr'.state) ELSE path
    /\ pc' = IF pc = "new" THEN "reverted" ELSE "advanced, reverted"
    /\ UNCHANGED <<period, format, visualizer, buffer, bitstream, call, history,
                   timecode, returned, generator>>

InverseNext == InverseAdvance \/ InverseRevert

SpecInverse == InverseInit /\ [][InverseNext]_vars

\* both calls are made
BothCalled == pc \in {"advanced, reverted", "reverted, advanced"}

\* C18 as stated: for every width n, every n-bit state s and every n-bit tap
\* mask, previous_state applied to next_state(s) gives s, and next_state
\* applied to previous_state(s) gives s.
C18_InverseForEveryTaps == BothCalled => lfsr.state = path[1]

\* C18, amended: for every width n, every n-bit state s and every n-bit tap
\* mask with bit 0 set, previous_state applied to next_state(s) gives s, and
\* next_state applied to previous_state(s) gives s.  For every tap mask with
\* bit 0 clear there are states that next_state maps to the same state, so
\* that no function inverts it.
C18_InverseForTapsWithBitZero ==
    /\ (BothCalled /\ BitAnd(lfsr.taps, 1) = 1) => lfsr.state = path[1]
    /\ (pc = "new" /\ BitAnd(lfsr.taps, 1) = 0)
          => \E other \in 0..mask(lfsr.size) :
                /\ other # lfsr.state
                /\ next_state([lfsr EXCEPT !.state = other]) = next_state(lfsr)

C18_Witness ==
    /\ pc = "advanced, reverted"
    /\ lfsr.size = MaxWidth
    /\ BitAnd(lfsr.taps, 1) = 1
    /\ lfsr.taps # 1
    /\ path[2] # path[1]
    /\ path[2] = next_state([lfsr EXCEPT !.state = path[1]])
    /\ lfsr.state = path[1]

(***************************************************************************)
(* Discontinuities: a push that leaves the sequence                        *)
(***************************************************************************)
\* the last call was process_bit at a defined position, and the window it
\* left is not the window of the next position
Discontinuity ==
    /\ call.name = "process_bit"
    /\ position(Before) # None
    /\ ~ ( /\ bitstream.bitstream \in DOMAIN bitstream.lookup_table
           /\ bitstream.lookup_table[bitstream.bitstream]
                  = Unwrap(position(Before)) + 1 )

\* C19: whenever process_bit is called at a defined position p with a bit
\* that does not continue the sequence, valid_bits is reset (it counts the
\* pushed bit alone), position() returns None after the call and keeps
\* returning None until size bits have been pushed since the reset.
C19_DiscontinuityDetected ==
    Discontinuity
        => /\ bitstream.valid_bits = 1
           /\ position(bitstream) = None
           /\ \A bit \in {0, 1} :
                 /\ process_bit(bitstream, bit).valid_bits = 2
                 /\ 2 < bitstream.size => position(process_bit(bitstream, bit)) = None

(***************************************************************************)
(* The direction when both channels cross zero in the same call            *)
(***************************************************************************)
\* the last process_channels call saw a zero crossing on both channels
BothCrossedZero ==
    /\ Len(history) > 0
    /\ timecode.primary_crossed_zero
    /\ timecode.secondary_crossed_zero

SameStatus ==
    timecode.primary_channel.wave_cycle_status
        = timecode.secondary_channel.wave_cycle_status

\* C20 as stated: when both channels report a zero crossing on the same
\* sample, the direction after process_channels is the one of the
\* secondary-channel rule, Forwards iff the primary status differs from the
\* secondary status.
C20_SecondaryRuleWins ==
    BothCrossedZero
        => timecode.direction = (IF ~SameStatus THEN "Forwards" ELSE "Backwards")

\* C20, amended: when both channels report a zero crossing on the same
\* sample, the direction after process_channels is the one of the
\* primary-channel rule, Forwards iff the primary status equals the secondary
\* status: the secondary rule is the else-branch of the primary one and is
\* skipped.
C20_PrimaryRuleWins ==
    BothCrossedZero
        => timecode.direction = (IF SameStatus THEN "Forwards" ELSE "Backwards")

C20_Witness ==
    /\ BothCrossedZero
    /\ ~SameStatus
    /\ timecode.direction = "Backwards"
    /\ Len(history) >= 2
    /\ history[Len(history)][1] # history[Len(history)][2]

(***************************************************************************)
(* The peak that bit_from_sample keeps                                     *)
(***************************************************************************)
\* |x - ewma.last_output| for the sample x of the last call and the average
\* the primary channel has after it
DifferenceRead(tc) == Abs(tc.primary_sample - tc.primary_channel.ewma.last_output)

\* C21: a call of bit_from_sample(x) leaves peak_threshold at the maximum of
\* the previous peak_threshold and a = |x - ewma.last_output|, and returns
\* a > floor(0.9 * peak_threshold); so peak_threshold >= a after the call.
C21_PeakOfDifference ==
    [][ returned' # None =>
          /\ timecode'.primary_channel.sample = DifferenceRead(timecode')
          /\ timecode'.primary_channel.peak_threshold
                 = IntMax(timecode.primary_channel.peak_threshold, DifferenceRead(timecode'))
          /\ timecode'.primary_channel.peak_threshold >= DifferenceRead(timecode')
          /\ timecode'.bit
                 = (DifferenceRead(timecode')
                        > NineTenths(timecode'.primary_channel.peak_threshold)) ]_vars

(***************************************************************************)
(* The direction rule                                                      *)
(***************************************************************************)
\* C22: on a sample where only the primary channel crossed zero the direction
\* becomes Forwards iff the statuses of the two channels after the sample
\* are equal, else Backwards; where only the secondary channel crossed,
\* Forwards iff they differ, else Backwards; on a sample without a crossing
\* the direction stays.  A new Timecode has direction Forwards.
C22_DirectionRule ==
    [][ /\ Len(history) = 0 => timecode.direction = "Forwards"
        /\ (timecode'.primary_crossed_zero /\ ~timecode'.secondary_crossed_zero)
              => timecode'.direction
                     = (IF timecode'.primary_channel.wave_cycle_status
                              = timecode'.secondary_channel.wave_cycle_status
                        THEN "Forwards" ELSE "Backwards")
        /\ (~timecode'.primary_crossed_zero /\ timecode'.secondary_crossed_zero)
              => timecode'.direction
                     = (IF timecode'.primary_channel.wave_cycle_status
                              # timecode'.secondary_channel.wave_cycle_status
                        THEN "Forwards" ELSE "Backwards")
        /\ (~timecode'.primary_crossed_zero /\ ~timecode'.secondary_crossed_zero)
              => timecode'.direction = timecode.direction ]_vars

\* a call without a crossing has left the direction at Backwards
C22_Witness ==
    /\ Len(history) >= 2
    /\ ~timecode.primary_crossed_zero
    /\ ~timecode.secondary_crossed_zero
    /\ timecode.direction = "Backwards"

(***************************************************************************)
(* Quadrature: the order in which the statuses of the channels change      *)
(***************************************************************************)
StatusPair(tc) ==
    <<tc.primary_channel.wave_cycle_status, tc.secondary_channel.wave_cycle_status>>

\* the pair that follows in the cycle (+,+) -> (+,-) -> (-,-) -> (-,+) -> (+,+)
\* of a sine on the primary and a cosine on the secondary channel
QuadratureSuccessor(pair) ==
    IF pair[1] = pair[2] THEN <<pair[1], Toggled(pair[2])>> ELSE <<Toggled(pair[1]), pair[2]>>

\* C23: a call in which the pair of statuses moves one step along the cycle
\* (+,+) -> (+,-) -> (-,-) -> (-,+) -> (+,+) leaves direction Forwards, and a
\* call in which it moves one step in the reverse order leaves direction
\* Backwards.
C23_QuadratureDirection ==
    [][ /\ StatusPair(timecode') = QuadratureSuccessor(StatusPair(timecode))
              => timecode'.direction = "Forwards"
        /\ StatusPair(timecode) = QuadratureSuccessor(StatusPair(timecode'))
              => timecode'.direction = "Backwards" ]_vars

\* the four crossings of one cycle, in the forward order
C23_Witness ==
    /\ history = << <<16383, -16383>>, <<-16383, -16383>>, <<-16383, 16383>>,
                    <<16383, 16383>> >>
    /\ StatusPair(timecode) = <<"Positive", "Positive">>
    /\ timecode.primary_crossed_zero
    /\ ~timecode.secondary_crossed_zero
    /\ timecode.direction = "Forwards"

(***************************************************************************)
(* process_sample, seen from a call of process_channels                    *)
(***************************************************************************)
\* process_sample(x) took the channel from `before` to `after` as stated: the
\* crossing is decided against the average of `before`, the status toggles
\* with it, and the average moves on
SampleProcessed(before, after, x) ==
    /\ after.crossed_zero
           = ( \/ before.wave_cycle_status = "Negative" /\ x > before.ewma.last_output
               \/ before.wave_cycle_status = "Positive" /\ x < before.ewma.last_output )
    /\ after.wave_cycle_status # before.wave_cycle_status <=> after.crossed_zero
    /\ after.ewma.last_output
           = before.ewma.last_output
                 + Scaled(before.ewma.smoothing_factor, x - before.ewma.last_output)
    /\ x = before.ewma.last_output => ~after.crossed_zero

\* C24: process_sample(x) reports a crossing iff the status is Negative and
\* x > ewma.last_output or the status is Positive and x < ewma.last_output,
\* with the average from before the sample; the status toggles exactly when
\* a crossing is reported; the average is updated on every sample, after the
\* comparison; a sample equal to the average never produces a crossing.
C24_CrossingRule ==
    [][ history' # history =>
          /\ SampleProcessed(timecode.primary_channel, timecode'.primary_channel,
                             timecode'.primary_sample)
          /\ SampleProcessed(timecode.secondary_channel, timecode'.secondary_channel,
                             timecode'.secondary_sample)
          /\ timecode'.primary_crossed_zero = timecode'.primary_channel.crossed_zero
          /\ timecode'.secondary_crossed_zero = timecode'.secondary_channel.crossed_zero
      ]_vars

\* a crossing from Negative back to Positive, and none on the other channel
\* whose sample is above the average it is Positive against
C24_Witness ==
    /\ Len(history) >= 2
    /\ timecode.primary_channel.crossed_zero
    /\ timecode.primary_channel.wave_cycle_status = "Positive"
    /\ ~timecode.secondary_channel.crossed_zero
    /\ timecode.secondary_channel.wave_cycle_status = "Positive"
    /\ timecode.secondary_channel.ewma.last_output > 0

(***************************************************************************)
(* Pushes on a Bitstream of any format: the two formats of the tests and   *)
(* every (size, seed, taps) of a small width, the ones that are not of     *)
(* maximum length included.                                                *)
(***************************************************************************)
MaxSmallSize == 3

AnyBitstreamInit ==
    \/ BitstreamInit
    \/ \E size \in 2..MaxSmallSize :
          \E seed \in 0..mask(size), taps \in 0..mask(size) :
              Constructed(TimecodeFormat(size, seed, taps))

SpecAnyBitstream == AnyBitstreamInit /\ [][BitstreamNext]_vars

\* C25: for size >= 2 and after any sequence of pushes, if position() is
\* defined before and after a process_bit call, the position after is the
\* one before + 1, and for a process_bit_backward call it is the one
\* before - 1: a reported position never jumps.
C25_PositionContinuity ==
    (format.size >= 2 /\ position(Before) # None /\ position(bitstream) # None)
        => /\ call.name = "process_bit"
                => Unwrap(position(bitstream)) = Unwrap(position(Before)) + 1
           /\ call.name = "process_bit_backward"
                => Unwrap(position(bitstream)) = Unwrap(position(Before)) - 1

\* a backward step between two defined positions of a small format
C25_Witness ==
    /\ format.size = 2
    /\ call.name = "process_bit_backward"
    /\ position(Before) = Some(2)
    /\ position(bitstream) = Some(1)

(***************************************************************************)
(* Re-locking after a reset.  path keeps the pushes made since the push    *)
(* that last set valid_bits to 1, that push included, until size of them   *)
(* were made; it is empty when no reset is being followed.  The 8-bit      *)
(* format of test_lookup_table is followed along its script, the small     *)
(* formats under every push.                                               *)
(***************************************************************************)
MaxRelockSize == 3

RelockInit ==
    \/ Constructed(TestLookupTableFormat)
    \/ \E size \in 2..MaxRelockSize :
          \E seed \in 0..mask(size), taps \in 0..mask(size) :
              Constructed(TimecodeFormat(size, seed, taps))

PushesSinceReset(pushed, name, bit) ==
    IF pushed.valid_bits = 1 THEN << <<name, bit>> >>
    ELSE IF path = <<>> \/ Len(path) >= bitstream.size THEN <<>>
    ELSE Append(path, <<name, bit>>)

RelockPush(name, bit, pushed) ==
    /\ pc = "bitstream"
    /\ bitstream.valid_bits < MaxValidBits
    /\ format.size > MaxRelockSize => Follow(history, name, bit) # OffScript
    /\ bitstream' = pushed
    /\ call' = Called(name, bit)
    /\ history' = Follow(history, name, bit)
    /\ path' = PushesSinceReset(pushed, name, bit)
    /\ UNCHANGED <<lfsr, period, pc, format, visualizer, buffer, timecode,
                   returned, generator>>

RelockNext ==
    \E bit \in {0, 1} :
        \/ RelockPush("process_bit", bit, process_bit(bitstream, bit))
        \/ RelockPush("process_bit_backward", bit,
                      process_bit_backward(bitstream, bit))

SpecRelock == RelockInit /\ [][RelockNext]_vars

\* the format is of maximal length: the table holds 2^size - 1 windows, and
\* the register of the last of them advances to the seed
IsMaximalLength(b) ==
    /\ Cardinality(DOMAIN b.lookup_table) = 2 ^ b.size - 1
    /\ \E last \in DOMAIN b.lookup_table :
          /\ b.lookup_table[last] = 2 ^ b.size - 2
          /\ insert_msb(b.size, last, FeedbackBit(last)) = format.seed

\* the pushes are process_bit calls with the bits an LFSR of the format
\* emits from the register state r on: states[i + 1] is the register after
\* the i-th of them, and its top bit is the bit that was fed in
FollowsSequenceFrom(pushes, states) ==
    \A i \in 1..Len(pushes) :
        pushes[i] = <<"process_bit", Shr(states[i + 1], format.size - 1)>>

\* C26: after a push that set valid_bits to 1, every later push adds one
\* to valid_bits, so is_valid() is false during the next size - 2 pushes
\* and true after size - 1 of them, forward or backward and whatever the
\* bits; a push made while the bitstream is invalid never resets; and when
\* the size bits are those of the LFSR sequence, the window is the register
\* of that sequence and position() is its position.
C26_BoundedRelock ==
    /\ (call.name # "new" /\ call.valid_bits < format.size)
            => bitstream.valid_bits = call.valid_bits + 1
    /\ path # <<>> =>
        /\ bitstream.valid_bits = Len(path)
        /\ is_valid(bitstream) <=> Len(path) - 1 >= format.size - 1
        /\ Len(path) = format.size =>
              \A r \in DOMAIN bitstream.lookup_table :
                  LET states == Orbit(format.size, r, format.taps, format.size + 1)
                      n == format.size
                  IN  FollowsSequenceFrom(path, states) =>
                        /\ bitstream.bitstream = states[n + 1]
                        /\ states[n + 1] \in DOMAIN bitstream.lookup_table
                        /\ position(bitstream)
                              = Some(bitstream.lookup_table[states[n + 1]])
                        /\ (/\ IsMaximalLength(bitstream)
                            /\ bitstream.lookup_table[r] + n <= 2 ^ n - 2)
                              => position(bitstream)
                                    = Some(bitstream.lookup_table[r] + n)

\* test_lookup_table's eighth push after the skip: the window is the register
\* of position 182 again
C26_Witness ==
    /\ format = TestLookupTableFormat
    /\ Len(path) = 8
    /\ \E r \in DOMAIN bitstream.lookup_table :
          /\ bitstream.lookup_table[r] = 174
          /\ FollowsSequenceFrom(path, Orbit(8, r, 29, 9))
    /\ bitstream.valid_bits = 8
    /\ position(bitstream) = Some(182)

\* C27: position() is Some exactly when valid_bits >= size and the window is
\* a key of the lookup table, and then it is the table's entry; with a
\* maximal-length format the all-zero window is no key, so position() is
\* None there even when is_valid() is true.
C27_PositionDefined ==
    /\ position(bitstream) # None
          <=> /\ bitstream.valid_bits >= bitstream.size
              /\ bitstream.bitstream \in DOMAIN bitstream.lookup_table
    /\ position(bitstream) # None
          => position(bitstream) = Some(bitstream.lookup_table[bitstream.bitstream])
    /\ (IsMaximalLength(bitstream) /\ bitstream.bitstream = 0)
          => position(bitstream) = None

\* the all-zero window of the 8-bit format while is_valid() is true
C27_Witness ==
    /\ format = TestLookupTableFormat
    /\ IsMaximalLength(bitstream)
    /\ bitstream.bitstream = 0
    /\ is_valid(bitstream)
    /\ position(bitstream) = None

(***************************************************************************)
(* TimecodeAudioGenerator::new on a format of any width, seed and tap      *)
(* mask: revert, read previous_bit, advance, assert_eq!(lfsr.state, seed). *)
(***************************************************************************)
\* the register after the revert and the advance of new()
RevertedAndAdvanced(f) == advance(revert(FibonacciLfsr(f.size, f.seed, f.taps)))

\* new() returns the generator: lfsr.size - 2 does not wrap and the
\* assertion holds
GeneratorNewReturns ==
    /\ pc = "new"
    /\ format.size >= 2
    /\ RevertedAndAdvanced(format).state = format.seed
    /\ \E sample_rate_hz \in SampleRates :
          generator' = TimecodeAudioGenerator_new(format, sample_rate_hz)
    /\ pc' = "constructed"
    /\ UNCHANGED <<lfsr, period, path, format, visualizer, buffer, bitstream, call,
                   history, timecode, returned>>

\* assert_eq!(lfsr.state, *seed) fails
GeneratorNewAssertFails ==
    /\ pc = "new"
    /\ RevertedAndAdvanced(format).state # format.seed
    /\ pc' = "panicked"
    /\ UNCHANGED <<lfsr, period, path, format, visualizer, buffer, bitstream, call,
                   history, timecode, returned, generator>>

\* lfsr.size - 2 with size < 2: a panic where overflow is checked; where it
\* wraps, the shift by its low five bits leaves previous_bit false
GeneratorNewUnderflows ==
    /\ pc = "new"
    /\ format.size < 2
    /\ \/ /\ pc' = "panicked"
          /\ UNCHANGED generator
       \/ /\ RevertedAndAdvanced(format).state = format.seed
          /\ \E sample_rate_hz \in SampleRates :
                generator' = [ lfsr |-> RevertedAndAdvanced(format),
                               sample_rate_hz |-> sample_rate_hz,
                               signal_frequency_hz |-> format.signal_frequency_hz,
                               previous_bit |-> FALSE,
                               cycle_index |-> 0,
                               index |-> 0 ]
          /\ pc' = "constructed"
    /\ UNCHANGED <<lfsr, period, path, format, visualizer, buffer, bitstream, call,
                   history, timecode, returned>>

GeneratorNewInit ==
    /\ \E size \in 1..MaxWidth :
          \E seed \in 0..mask(size), taps \in 0..mask(size) :
              format = TimecodeFormat(size, seed, taps)
    /\ pc = "new"
    /\ generator = Unused
    /\ lfsr = Unused
    /\ period = Unused
    /\ path = Unused
    /\ visualizer = Unused
    /\ buffer = Unused
    /\ bitstream = Unused
    /\ call = Unused
    /\ history = Unused
    /\ timecode = Unused
    /\ returned = Unused

GeneratorNewNext ==
    \/ GeneratorNewReturns
    \/ GeneratorNewAssertFails
    \/ GeneratorNewUnderflows

SpecGeneratorNew == GeneratorNewInit /\ [][GeneratorNewNext]_vars

\* C29 as stated: for every format (size, seed, taps), new() completes and
\* leaves state() = seed.
C29_NewRestoresSeedForEveryFormat ==
    pc # "new" => pc = "constructed" /\ generator.lfsr.state = format.seed

\* C29, amended: for every format with size >= 2 and bit 0 of the tap mask
\* set, new() completes with state() = seed, cycle_index = 0 and index = 0,
\* and previous_bit is bit size - 2 of the reverted register; new() never
\* returns a generator whose state is not the seed.
C29_NewRestoresSeedForTapsWithBitZero ==
    /\ (pc # "new" /\ format.size >= 2 /\ BitAnd(format.taps, 1) = 1)
          => /\ pc = "constructed"
             /\ generator.lfsr = FibonacciLfsr(format.size, format.seed, format.taps)
             /\ generator.cycle_index = 0
             /\ generator.index = 0
             /\ generator.previous_bit
                  = (BitAnd(Shr(revert(generator.lfsr).state, format.size - 2), 1) = 1)
    /\ pc = "constructed" => generator.lfsr.state = format.seed

\* a constructed generator of a 3-bit format whose reverted register is 0b011
C29_Witness ==
    /\ pc = "constructed"
    /\ format.size = 3
    /\ format.taps = 5
    /\ format.seed = 5
    /\ generator.lfsr.state = 5
    /\ generator.previous_bit
    /\ revert(generator.lfsr).state = 3

(***************************************************************************)
(* The generator sample by sample.  call keeps the generator as it was     *)
(* when next_sample was called, and the two bits the call encoded.         *)
(***************************************************************************)
MaxGenerated == 900

SampleFormats == {SERATO_CONTROL_CD_1_0_0, TestLookupTableFormat}

SamplesInit ==
    /\ format \in SampleFormats
    /\ \E sample_rate_hz \in SampleRates :
          generator = TimecodeAudioGenerator_new(format, sample_rate_hz)
    /\ call = [before |-> generator, primary_bit |-> FALSE, secondary_bit |-> FALSE]
    /\ pc = "new"
    /\ lfsr = Unused
    /\ period = Unused
    /\ path = Unused
    /\ visualizer = Unused
    /\ buffer = Unused
    /\ bitstream = Unused
    /\ history = Unused
    /\ timecode = Unused
    /\ returned = Unused

TakeSample ==
    /\ generator.index < MaxGenerated
    /\ generator' = [CycleEntered(generator) EXCEPT !.index = @ + 1]
    /\ call' = [before |-> generator,
                primary_bit |-> PrimaryBit(CycleEntered(generator)),
                secondary_bit |-> SecondaryBit(CycleEntered(generator))]
    /\ pc' = "sampled"
    /\ UNCHANGED <<lfsr, period, path, format, visualizer, buffer, bitstream,
                   history, timecode, returned>>

SpecSamples == SamplesInit /\ [][TakeSample]_vars

\* the register of the format after n advances from the seed
SeedAdvanced(n) == Orbit(format.size, format.seed, format.taps, n + 1)[n + 1]

\* the sample at g.index is the first of its cycle at a cycle position >= 0.75
FirstOfLastQuarter(g) ==
    /\ InLastQuarter(g)
    /\ g.index > 0 =>
          LET earlier == [g EXCEPT !.index = @ - 1]
          IN  ~(CycleIndex(earlier) = CycleIndex(g) /\ InLastQuarter(earlier))

\* C28: at 44100 Hz and 48000 Hz, next_sample advances the LFSR at the
\* first sample of each cycle whose cycle position is >= 0.75 and at no
\* other sample: during cycle k the register is the seed advanced k times
\* before that sample and k + 1 times from it on, so that no cycle has two
\* advances and none is skipped.
C28_OneAdvancePerCycle ==
    pc = "sampled" =>
        LET k == CycleIndex(call.before)
        IN  /\ FirstOfLastQuarter(call.before)
                <=> generator.cycle_index = call.before.cycle_index + 1
            /\ ~FirstOfLastQuarter(call.before) => generator.lfsr = call.before.lfsr
            /\ FirstOfLastQuarter(call.before)
                => /\ call.before.lfsr.state = SeedAdvanced(k)
                   /\ generator.lfsr.state = SeedAdvanced(k + 1)
            /\ generator.cycle_index = IF InLastQuarter(call.before) THEN k + 1 ELSE k
            /\ generator.lfsr.state = SeedAdvanced(generator.cycle_index)

\* the advance of cycle 19 at 44100 Hz: sample 871 is its first at a cycle
\* position >= 0.75
C28_Witness ==
    /\ pc = "sampled"
    /\ format = SERATO_CONTROL_CD_1_0_0
    /\ call.before.sample_rate_hz = 44100
    /\ call.before.index = 871
    /\ call.before.cycle_index = 19
    /\ generator.cycle_index = 20
    /\ generator.lfsr.state = SeedAdvanced(20)
    /\ generator.lfsr.state # call.before.lfsr.state

\* the most significant of the size bits of a register state
MostSignificantBit(state) == BitAnd(Shr(state, format.size - 1), 1) = 1

\* C30: at every sample the secondary channel encodes the MSB of the LFSR
\* state as next_sample leaves it; the primary channel encodes the MSB of
\* the state before the most recent advance while the cycle position is
\* >= 0.75, and the secondary's bit otherwise, which at the quarter-cycle
\* point is the MSB of state().
C30_BitSelection ==
    pc = "sampled" =>
        /\ generator.lfsr.state \in 0..mask(format.size)
        /\ call.secondary_bit = MostSignificantBit(generator.lfsr.state)
        /\ InLastQuarter(call.before)
              => /\ generator.cycle_index >= 1
                 /\ call.primary_bit
                      = MostSignificantBit(SeedAdvanced(generator.cycle_index - 1))
        /\ ~InLastQuarter(call.before)
              => /\ call.primary_bit = call.secondary_bit
                 /\ call.primary_bit = MostSignificantBit(generator.lfsr.state)

\* a sample of a last quarter at 48000 Hz, after cycle 0, where the register
\* before the advance and the register after it differ in their MSB
C30_Witness ==
    /\ pc = "sampled"
    /\ format = SERATO_CONTROL_CD_1_0_0
    /\ call.before.sample_rate_hz = 48000
    /\ InLastQuarter(call.before)
    /\ call.before.index > 36
    /\ call.primary_bit # call.secondary_bit
    /\ call.primary_bit = MostSignificantBit(SeedAdvanced(generator.cycle_index - 1))

(***************************************************************************)
(* Constant input.  A fresh Timecode is fed up to MaxVaried pairs, then    *)
(* one pair is held: call keeps the pair, the number of calls made with    *)
(* it, the zero crossings each channel reported in them, and whether one   *)
(* of them overflowed.  An overflow panics where it is checked and wraps   *)
(* where it is not.                                                        *)
(***************************************************************************)
DCSamples == {-32767, 0, 16383, 32767}

MaxVaried == 1

MaxHeld == 110

DCInit ==
    /\ format = TestLookupTableFormat
    /\ \E sample_rate_hz \in SampleRates : timecode = Timecode_new(format, sample_rate_hz)
    /\ returned = None
    /\ history = <<>>
    /\ call = [held |-> None, calls |-> 0, primary_crossings |-> 0,
               secondary_crossings |-> 0, overflowed |-> FALSE]
    /\ pc = "varying"
    /\ lfsr = Unused
    /\ period = Unused
    /\ path = Unused
    /\ visualizer = Unused
    /\ buffer = Unused
    /\ bitstream = Unused
    /\ generator = Unused

\* process_channels(primary_sample, secondary_sample) returns, or panics at
\* an overflow
DCProcessed(primary_sample, secondary_sample) ==
    \/ /\ Returns(process_channels(timecode, primary_sample, secondary_sample))
       /\ pc' = pc
    \/ /\ \/ Overflows(timecode, primary_sample, secondary_sample).channel
          \/ Overflows(timecode, primary_sample, secondary_sample).abs
       /\ pc' = "panicked"
       /\ UNCHANGED <<timecode, returned>>

\* a pair before the input becomes constant
Vary ==
    /\ pc = "varying"
    /\ Len(history) < MaxVaried
    /\ \E primary_sample, secondary_sample \in DCSamples :
          /\ DCProcessed(primary_sample, secondary_sample)
          /\ history' = Append(history, <<primary_sample, secondary_sample>>)
    /\ UNCHANGED <<lfsr, period, path, format, visualizer, buffer, bitstream,
                   call, generator>>

\* from here on every pair is (l, r)
Hold ==
    /\ pc = "varying"
    /\ \E l, r \in DCSamples : call' = [call EXCEPT !.held = Some(<<l, r>>)]
    /\ pc' = "held"
    /\ UNCHANGED <<lfsr, period, path, format, visualizer, buffer, bitstream,
                   history, timecode, returned, generator>>

\* one more call with the held pair
Held ==
    /\ pc = "held"
    /\ call.calls < MaxHeld
    /\ DCProcessed(Unwrap(call.held)[1], Unwrap(call.held)[2])
    /\ call' = [call EXCEPT
                  !.calls = @ + 1,
                  !.overflowed =
                      \/ @
                      \/ Overflows(timecode, Unwrap(call.held)[1],
                                   Unwrap(call.held)[2]).channel
                      \/ Overflows(timecode, Unwrap(call.held)[1],
                                   Unwrap(call.held)[2]).abs,
                  !.primary_crossings =
                      IF pc' = "held" /\ timecode'.primary_crossed_zero THEN @ + 1 ELSE @,
                  !.secondary_crossings =
                      IF pc' = "held" /\ timecode'.secondary_crossed_zero THEN @ + 1 ELSE @]
    /\ UNCHANGED <<lfsr, period, path, format, visualizer, buffer, bitstream,
                   history, generator>>

DCNext == Vary \/ Hold \/ Held

SpecDC == DCInit /\ [][DCNext]_vars

\* the filters of both channels rest: the held pair moves neither average
\* and crosses neither
AtRest ==
    /\ smoothen(timecode.primary_channel.ewma, timecode.primary_sample)
          = timecode.primary_channel.ewma.last_output
    /\ smoothen(timecode.secondary_channel.ewma, timecode.secondary_sample)
          = timecode.secondary_channel.ewma.last_output
    /\ ~has_crossed_zero(timecode.primary_channel, timecode.primary_sample)
    /\ ~has_crossed_zero(timecode.secondary_channel, timecode.secondary_sample)

\* C31: once the input pair is constant, no call fails, each channel reports
\* at most one further zero crossing, and after the averages have settled
\* process_channels returns None and the filters rest.
C31_ConstantInputSettles ==
    call.held # None =>
        /\ pc # "panicked"
        /\ call.primary_crossings <= 1
        /\ call.secondary_crossings <= 1
        /\ call.calls = MaxHeld => returned = None /\ AtRest

\* the same for the calls without an overflow: what C31 states holds as long
\* as the held pair is within the i32 range of the averages
DCWithoutOverflow ==
    (call.held # None /\ ~call.overflowed) =>
        /\ pc # "panicked"
        /\ call.primary_crossings <= 1
        /\ call.secondary_crossings <= 1
        /\ call.calls = MaxHeld => returned = None /\ AtRest

(***************************************************************************)
(* The absolute values of process_channels, on the full-scale samples      *)
(***************************************************************************)
\* C32: for every sequence of pairs with the sample -32768 in it, no abs()
\* of process_channels is applied to i32::MIN: no call fails at one, and the
\* magnitudes kept by the pitch detector and by bit_from_sample are not
\* negative.
C32_NoAbsOfMin ==
    /\ ~call.abs
    /\ timecode.pitch.samples_since_last_quarter_cycle.a >= 0
    /\ timecode.pitch.samples_since_last_quarter_cycle.b >= 0
    /\ timecode.primary_channel.sample >= 0
    /\ timecode.secondary_channel.sample >= 0

(***************************************************************************)
(* The fraction b / (b + a) of update_after_zero_crossing                  *)
(***************************************************************************)
\* the f64 whole + b / (b + a) is a number: 0.0 / 0.0 is not
IsNumber(samples) == samples.a + samples.b # 0

\* C33: when the remembered sample and the current sample of the crossing
\* channel are both zero, update_after_zero_crossing takes the fraction as
\* 0.5, so samples_since_last_quarter_cycle is a finite number after every
\* call.
C33_FractionOfZeroSamples ==
    IsNumber(timecode.pitch.samples_since_last_quarter_cycle)

(***************************************************************************)
(* The peak thresholds across the calls of process_channels                *)
(***************************************************************************)
\* C34: across the calls of process_channels the peak_threshold of each
\* channel starts at 0, never decreases and is never negative, and it
\* changes only in a call that returns a bit event.
C34_PeakThresholdRatchet ==
    [][ /\ timecode'.primary_channel.peak_threshold
              >= timecode.primary_channel.peak_threshold
        /\ timecode'.secondary_channel.peak_threshold
              >= timecode.secondary_channel.peak_threshold
        /\ timecode'.primary_channel.peak_threshold >= 0
        /\ timecode'.secondary_channel.peak_threshold >= 0
        /\ Len(history) = 0 =>
              /\ timecode.primary_channel.peak_threshold = 0
              /\ timecode.secondary_channel.peak_threshold = 0
        /\ (\/ timecode'.primary_channel.peak_threshold
                  # timecode.primary_channel.peak_threshold
            \/ timecode'.secondary_channel.peak_threshold
                  # timecode.secondary_channel.peak_threshold)
              => returned' # None ]_vars

\* a bit read from the sample 0 after one read from 16383: the peak stays
C34_Witness ==
    /\ history = << <<-16383, 0>>, <<-16383, 0>>, <<16383, -16383>>, <<0, 16383>> >>
    /\ returned # None
    /\ timecode.primary_sample = 0
    /\ timecode.primary_channel.peak_threshold = 16383 * 65536

(***************************************************************************)
(* A push forward and a push back.  After any pushes, process_bit(b) is    *)
(* followed by process_bit_backward with the bit the window lost; path     *)
(* keeps the Bitstream before the two calls, b, and position() between.    *)
(***************************************************************************)
ThereForward ==
    /\ pc = "bitstream"
    /\ \E bit \in {0, 1} :
          /\ bitstream' = process_bit(bitstream, bit)
          /\ call' = Called("process_bit", bit)
          /\ path' = [window |-> bitstream.bitstream,
                      valid_bits |-> bitstream.valid_bits,
                      position |-> position(bitstream),
                      bit |-> bit,
                      between |-> position(bitstream')]
    /\ pc' = "there"
    /\ UNCHANGED <<lfsr, period, format, visualizer, buffer, history, timecode,
                   returned, generator>>

ThereBack ==
    /\ pc = "there"
    /\ bitstream' = process_bit_backward(bitstream, BitAnd(path.window, 1))
    /\ call' = Called("process_bit_backward", BitAnd(path.window, 1))
    /\ pc' = "back"
    /\ UNCHANGED <<lfsr, period, path, format, visualizer, buffer, history,
                   timecode, returned, generator>>

ThereAndBackNext == BitstreamNext \/ ThereForward \/ ThereBack

SpecThereAndBack == AnyBitstreamInit /\ [][ThereAndBackNext]_vars

\* the two calls tracked the sequence: position p, then p + 1, then p again,
\* and valid_bits two higher
TrackedThereAndBack ==
    /\ path.between = Some(Unwrap(path.position) + 1)
    /\ position(bitstream) = path.position
    /\ bitstream.valid_bits = path.valid_bits + 2

\* C35 as stated: process_bit(b) followed by process_bit_backward(lsb(w))
\* restores every window w; when w is at a defined position p and b is the
\* continuing bit, the position goes p -> p + 1 -> p and valid_bits ends 2
\* higher.
C35_ThereAndBackAnywhere ==
    pc = "back" =>
        /\ bitstream.bitstream = path.window
        /\ (path.position # None /\ path.bit = FeedbackBit(path.window))
              => TrackedThereAndBack

\* C35, amended: the window is restored for every w and b; the position
\* goes p -> p + 1 -> p, with valid_bits 2 higher, when the format is of
\* maximal length, w is at a defined position p < 2^size - 2 and b is the
\* continuing bit.
C35_ThereAndBackBeforeLast ==
    pc = "back" =>
        /\ bitstream.bitstream = path.window
        /\ (/\ IsMaximalLength(bitstream)
            /\ path.position # None
            /\ Unwrap(path.position) < LastPosition
            /\ path.bit = FeedbackBit(path.window))
              => TrackedThereAndBack

\* test_lookup_table's step from position 184 to 185 and back
C35_Witness ==
    /\ pc = "back"
    /\ format = TestLookupTableFormat
    /\ path.position = Some(184)
    /\ path.between = Some(185)
    /\ position(bitstream) = Some(184)
    /\ bitstream.bitstream = path.window
    /\ bitstream.valid_bits = path.valid_bits + 2

(***************************************************************************)
(* The width of the window and of the register.  A Bitstream is pushed     *)
(* with arguments other than 0 and 1, and a register of any width, state   *)
(* and tap mask is advanced and reverted in any order.                     *)
(***************************************************************************)
\* u32 arguments of process_bit and process_bit_backward
PushArguments == {0, 1, 2, 3, 2147483646, 2147483647}

WidthInit ==
    \/ AnyBitstreamInit
    \/ /\ \E size \in 1..MaxWidth :
             \E state \in 0..mask(size), taps \in 0..mask(size) :
                 lfsr = FibonacciLfsr(size, state, taps)
       /\ pc = "lfsr"
       /\ call = [name |-> "new"]
       /\ path = Unused
       /\ visualizer = Unused
       /\ buffer = Unused
       /\ period = Unused
       /\ format = Unused
       /\ bitstream = Unused
       /\ history = Unused
       /\ timecode = Unused
       /\ returned = Unused
       /\ generator = Unused

PushArgument ==
    /\ pc = "bitstream"
    /\ bitstream.valid_bits < MaxValidBits
    /\ \E bit \in PushArguments :
          \/ /\ bitstream' = process_bit(bitstream, bit)
             /\ call' = Called("process_bit", bit)
          \/ /\ bitstream' = process_bit_backward(bitstream, bit)
             /\ call' = Called("process_bit_backward", bit)
    /\ history' = OffScript
    /\ UNCHANGED <<lfsr, period, path, pc, format, visualizer, buffer, timecode,
                   returned, generator>>

AdvanceOrRevert ==
    /\ pc = "lfsr"
    /\ \/ lfsr' = advance(lfsr) /\ call' = [name |-> "advance"]
       \/ lfsr' = revert(lfsr) /\ call' = [name |-> "revert"]
    /\ UNCHANGED <<period, path, pc, format, visualizer, buffer, bitstream,
                   history, timecode, returned, generator>>

WidthNext == PushArgument \/ AdvanceOrRevert

SpecWidth == WidthInit /\ [][WidthNext]_vars

\* C36: with a size-bit seed the window is below 2^size after any pushes,
\* whatever u32 is given as the bit, of which only the lowest bit is used;
\* and a register that starts as a size-bit value is one after any advance
\* and revert.
C36_WidthKept ==
    /\ pc = "bitstream" =>
          /\ bitstream.bitstream \in 0..mask(format.size)
          /\ call.name = "process_bit"
                => bitstream = process_bit(Before, call.bit % 2)
          /\ call.name = "process_bit_backward"
                => bitstream = process_bit_backward(Before, call.bit % 2)
    /\ pc = "lfsr" => lfsr.state \in 0..mask(lfsr.size)

\* process_bit_backward(2147483647) on a window with its top bit set
C36_Witness ==
    /\ pc = "bitstream"
    /\ format.size = 3
    /\ call.name = "process_bit_backward"
    /\ call.bit = 2147483647
    /\ call.bitstream = 6
    /\ bitstream.bitstream = 5

(***************************************************************************)
(* What a call of process_channels leaves alone                            *)
(***************************************************************************)
\* the window after one push of the bit, forward or backward
PushedOnce(before, after) ==
    \E bit \in {0, 1} :
        \/ after.bitstream = insert_msb(before.size, before.bitstream, bit)
        \/ after.bitstream = insert_lsb(before.size, before.bitstream, bit)

\* C37: a call of process_channels that returns None leaves state(),
\* valid_bits and both peak thresholds as they were; state() changes only in
\* a call that returns a bit event, and then by one push.
C37_FrameOfNonEvent ==
    [][ /\ returned' = None =>
              /\ timecode'.bitstream = timecode.bitstream
              /\ timecode'.primary_channel.peak_threshold
                    = timecode.primary_channel.peak_threshold
              /\ timecode'.secondary_channel.peak_threshold
                    = timecode.secondary_channel.peak_threshold
        /\ Timecode_state(timecode') # Timecode_state(timecode) => returned' # None
        /\ returned' # None =>
              /\ PushedOnce(timecode.bitstream, timecode'.bitstream)
              /\ timecode'.bitstream.lookup_table = timecode.bitstream.lookup_table ]_vars

\* both channels cross on the second pair, the primary one to Negative: no
\* bit is read, and the window and valid_bits of the first call's push stay
C37_Witness ==
    /\ history = << <<16383, -16383>>, <<0, 0>> >>
    /\ returned = None
    /\ timecode.primary_crossed_zero
    /\ timecode.secondary_crossed_zero
    /\ Timecode_state(timecode) = 0
    /\ timecode.bitstream.valid_bits = 9

(***************************************************************************)
(* rotate_left and rotate_right on every value of every width: one of the  *)
(* two and then the other, or one of them size times.  call holds the      *)
(* width and the value, path the values returned.                          *)
(***************************************************************************)
MaxRotateSize == 16

RotateInit ==
    /\ \E size \in 1..MaxRotateSize :
          \E data \in 0..mask(size) : call = [size |-> size, data |-> data]
    /\ path = <<>>
    /\ pc = "new"
    /\ lfsr = Unused
    /\ period = Unused
    /\ format = Unused
    /\ visualizer = Unused
    /\ buffer = Unused
    /\ bitstream = Unused
    /\ history = Unused
    /\ timecode = Unused
    /\ returned = Unused
    /\ generator = Unused

RECURSIVE RotatedLeft(_, _, _)
RotatedLeft(size, data, times) ==
    IF times = 0 THEN data ELSE RotatedLeft(size, rotate_left(size, data), times - 1)

RECURSIVE RotatedRight(_, _, _)
RotatedRight(size, data, times) ==
    IF times = 0 THEN data ELSE RotatedRight(size, rotate_right(size, data), times - 1)

RotateLeft ==
    /\ pc \in {"new", "right"}
    /\ path' = Append(path, rotate_left(call.size, IF pc = "new" THEN call.data ELSE Last(path)))
    /\ pc' = IF pc = "new" THEN "left" ELSE "right, left"
    /\ UNCHANGED <<lfsr, period, format, visualizer, buffer, bitstream, call,
                   history, timecode, returned, generator>>

RotateRight ==
    /\ pc \in {"new", "left"}
    /\ path' = Append(path, rotate_right(call.size, IF pc = "new" THEN call.data ELSE Last(path)))
    /\ pc' = IF pc = "new" THEN "right" ELSE "left, right"
    /\ UNCHANGED <<lfsr, period, format, visualizer, buffer, bitstream, call,
                   history, timecode, returned, generator>>

\* size calls of one of the two
RotateAround ==
    /\ pc = "new"
    /\ \/ /\ path' = <<RotatedLeft(call.size, call.data, call.size)>>
          /\ pc' = "left size times"
       \/ /\ path' = <<RotatedRight(call.size, call.data, call.size)>>
          /\ pc' = "right size times"
    /\ UNCHANGED <<lfsr, period, format, visualizer, buffer, bitstream, call,
                   history, timecode, returned, generator>>

RotateNext == RotateLeft \/ RotateRight \/ RotateAround

SpecRotate == RotateInit /\ [][RotateNext]_vars

\* C38: for every size in 1..16 and every size-bit d, rotate_right undoes
\* rotate_left and rotate_left undoes rotate_right, both return size-bit
\* values, and size calls of either return d.
C38_RotationsInverse ==
    /\ \A i \in 1..Len(path) : path[i] \in 0..mask(call.size)
    /\ pc \in {"left, right", "right, left", "left size times", "right size times"}
          => Last(path) = call.data
    /\ pc = "left" => path[1] = ((2 * call.data) % (2 ^ call.size))
                                    + (call.data \div (2 ^ (call.size - 1)))
    /\ pc = "right" => path[1] = (call.data \div 2)
                                    + ((call.data % 2) * (2 ^ (call.size - 1)))

\* test_rotate_left's 16-bit value, rotated left and back
C38_Witness ==
    /\ pc = "left, right"
    /\ call = [size |-> 16, data |-> 61680]
    /\ path = <<57825, 61680>>

====
